---- MODULE Spec2Model ----
(***************************************************************************)
(* Gait analysis pipeline of the knee exoskeleton study: stride            *)
(* segmentation and normalisation (src/src/gait_cycles.py), trial and      *)
(* condition averages (src/src/averages.py) and outcomes                   *)
(* (src/src/results.py), driven by src/scripts/main_gait_pipeline.py.      *)
(*                                                                         *)
(* Conventions.                                                            *)
(*  - A Python array is a TLA+ sequence; Python index i is position i+1.   *)
(*    Heel-strike indices are kept 0-based, as numpy reports them.         *)
(*  - A sample is an exact rational [n |-> numerator, d |-> denominator]   *)
(*    in lowest terms with d > 0.  The code computes in IEEE doubles; the  *)
(*    model computes the same expressions without rounding.                *)
(*  - A Python dict is a function whose DOMAIN is the set of keys present. *)
(*  - A call that can raise returns [exc |-> name, frame |-> locals        *)
(*    assigned before the exception, val |-> result]; exc = "none" when    *)
(*    the call returns.                                                    *)
(***************************************************************************)
EXTENDS Integers, Sequences, FiniteSets, TLC

VARIABLES
    data,                 \* the dictionary every stage works on
    pc,                   \* the stage of main_gait_pipeline.py
    at,                   \* the next statement inside the running stage
    exc,                  \* the exception that ended the run, or "none"
    part_i, file_i,       \* positions of the participant loop and the file loop
    participant_strides,  \* the container segment_strides fills per participant
    locals,               \* the locals of the file loop's body
    calls                 \* the locals of its two trial_strides calls

vars == <<data, pc, at, exc, part_i, file_i, participant_strides, locals, calls>>

(***************************************************************************)
(* Bounds of the model                                                     *)
(***************************************************************************)
\* samples per trial; stands for trial_length_seconds*sampling_frequency
\* (10 s at 1000 Hz, filters.py:46-47), scaled down so that every phase
\* trace of that length can be tried
NumDatapoints == 4
\* number of synthetic sample patterns the stride normalizer is tried on
NumPatterns == 2

(***************************************************************************)
(* Program constants                                                       *)
(***************************************************************************)
\* np.linspace(0, 100, 500): the canonical stride length
CanonicalLen == 500
\* np.linspace(0, 100, ...): the gait-percent domain ends at 100
PercentEnd == 100
\* sampFreqHz of tdms_to_dataframe
sampFreqHz == 1000

Participants == <<"BP A 010">>
\* the participants a data structure may hold, in the order they are imported
AllParticipants == <<"BP A 010", "BP A 011">>
FileNames == <<"transparent_0", "transparent_1">>
FilteredNames == {"GRFz (N)", "Joint Torque (Nm)"}
RawNames == {"GRFz (N)", "Joint Torque (Nm)", "Gait Phase (%)", "Time"}
PhaseValues == {0, 50}

(***************************************************************************)
(* Exact rational arithmetic (stands for float64 arithmetic)               *)
(***************************************************************************)
Abs(x) == IF x < 0 THEN -x ELSE x

RECURSIVE GCD(_, _)
GCD(a, b) == IF b = 0 THEN a ELSE GCD(b, a % b)

Rat(num, den) ==
    LET g == GCD(Abs(num), Abs(den))
        s == IF den < 0 THEN -1 ELSE 1
    IN  [n |-> s * (num \div g), d |-> s * (den \div g)]

RInt(i) == [n |-> i, d |-> 1]
RAdd(a, b) == Rat(a.n * b.d + b.n * a.d, a.d * b.d)
RSub(a, b) == Rat(a.n * b.d - b.n * a.d, a.d * b.d)
\* the factors are cancelled crosswise first, which keeps the products small
RMul(a, b) ==
    LET g1 == GCD(Abs(a.n), b.d)
        g2 == GCD(Abs(b.n), a.d)
    IN  Rat((a.n \div g1) * (b.n \div g2), (a.d \div g2) * (b.d \div g1))
RDiv(a, b) == RMul(a, IF b.n < 0 THEN [n |-> -b.d, d |-> -b.n] ELSE [n |-> b.d, d |-> b.n])
RLt(a, b) == a.n * b.d < b.n * a.d
RLe(a, b) == a.n * b.d <= b.n * a.d

Min(a, b) == IF a < b THEN a ELSE b
Max(a, b) == IF a > b THEN a ELSE b

(***************************************************************************)
(* numpy primitives                                                        *)
(***************************************************************************)
\* signal[lo:hi] that leaves out the sample at lo
SliceOpen(signal, lo, hi) ==
    LET h == Min(hi, Len(signal))
    IN  IF lo + 1 >= h THEN << >> ELSE SubSeq(signal, lo + 2, h)

\* signal[lo:hi] for 0 <= lo, 0 <= hi: the bounds are clipped to the array
Slice(signal, lo, hi) ==
    LET h == Min(hi, Len(signal))
    IN  IF lo >= h THEN << >> ELSE SubSeq(signal, lo + 1, h)

\* np.where(phase == 0)[0]: ascending 0-based indices of the zero samples
RECURSIVE WhereZero(_, _)
WhereZero(phase, i) ==
    IF i >= Len(phase) THEN << >>
    ELSE (IF phase[i + 1].n = 0 THEN <<i>> ELSE << >>) \o WhereZero(phase, i + 1)

\* np.linspace(0, 100, num): num evenly spaced points, both ends included
linspace(num) ==
    [k \in 1..num |-> IF num = 1 THEN RInt(0) ELSE Rat(PercentEnd * (k - 1), num - 1)]

\* the binary search of np.interp: the largest j in lo..hi with xp[j] <= x
RECURSIVE SearchLeft(_, _, _, _)
SearchLeft(xp, x, lo, hi) ==
    IF lo >= hi THEN lo
    ELSE LET mid == (lo + hi + 1) \div 2
         IN  IF RLe(xp[mid], x) THEN SearchLeft(xp, x, mid, hi)
             ELSE SearchLeft(xp, x, lo, mid - 1)

\* one point of np.interp(x, xp, fp), xp increasing and non-empty
InterpAt(x, xp, fp) ==
    LET last == Len(xp)
    IN  IF RLt(x, xp[1]) THEN fp[1]
        ELSE IF RLt(xp[last], x) THEN fp[last]
        ELSE LET j == SearchLeft(xp, x, 1, last)
             IN  IF j = last THEN fp[last]
                 ELSE IF xp[j] = x THEN fp[j]
                 ELSE LET slope == RDiv(RSub(fp[j + 1], fp[j]), RSub(xp[j + 1], xp[j]))
                      IN  RAdd(RMul(slope, RSub(x, xp[j])), fp[j])

\* np.interp(x, xp, fp): raises ValueError on an empty xp
interp(x, xp, fp) ==
    IF Len(xp) = 0
    THEN [exc |-> "ValueError", val |-> << >>]
    ELSE [exc |-> "none", val |-> [k \in 1..Len(x) |-> InterpAt(x[k], xp, fp)]]

(***************************************************************************)
(* Python helpers                                                          *)
(***************************************************************************)
\* d[k] = v on a dict
Put(d, k, v) == [x \in (DOMAIN d) \cup {k} |-> IF x = k THEN v ELSE d[x]]

EmptyDict == [x \in {} |-> 0]

Digit(i) ==
    CASE i = 0 -> "0" [] i = 1 -> "1" [] i = 2 -> "2" [] i = 3 -> "3" [] i = 4 -> "4"
      [] i = 5 -> "5" [] i = 6 -> "6" [] i = 7 -> "7" [] i = 8 -> "8" [] i = 9 -> "9"

\* str(i) of a non-negative int
RECURSIVE str(_)
str(i) == IF i < 10 THEN Digit(i) ELSE str(i \div 10) \o Digit(i % 10)

\* the first exception among the calls rs[k], k in keys ("none" if all return)
FirstExc(rs, keys) ==
    IF \E k \in keys : rs[k].exc # "none"
    THEN (CHOOSE e \in {rs[k].exc : k \in keys} : e # "none")
    ELSE "none"

(***************************************************************************)
(* filters.py                                                              *)
(***************************************************************************)
\* sg.filtfilt(b, a, signal) of a 2nd-order Butterworth low pass: a library
\* call, represented by a zero-phase (symmetric) smoothing kernel (1,2,1)/4
\* with the edge samples repeated; the output has the length of the input
LowPass(signal) ==
    [k \in 1..Len(signal) |->
        LET l == signal[Max(k - 1, 1)]
            r == signal[Min(k + 1, Len(signal))]
        IN  RDiv(RAdd(RAdd(l, r), RAdd(signal[k], signal[k])), RInt(4))]

\* apply_butterworth_filter(trial, filter_frequencies): a frame of
\* num_datapoints rows, one column per filtered signal
apply_butterworth_filter(trial, filter_names) ==
    IF \E s \in filter_names : s \notin DOMAIN trial
    THEN [exc |-> "KeyError", val |-> EmptyDict]
    ELSE IF \E s \in filter_names : Len(trial[s]) # NumDatapoints
    THEN [exc |-> "ValueError", val |-> EmptyDict]
    ELSE [exc |-> "none", val |-> [s \in filter_names |-> LowPass(trial[s])]]

\* filter_participant_trials(trials, filter_frequencies)
filter_participant_trials(trials, filter_names) ==
    LET rs == [name \in DOMAIN trials |-> apply_butterworth_filter(trials[name], filter_names)]
    IN  [exc |-> FirstExc(rs, DOMAIN trials),
         val |-> [name \in DOMAIN trials |-> rs[name].val]]

(***************************************************************************)
(* gait_cycles.py                                                          *)
(***************************************************************************)
\* get_stride_list whose loop never advances old_index: every chop starts
\* at sample 0
RECURSIVE ChopLoopStaleIndex(_, _, _)
ChopLoopStaleIndex(signal, heel_strike_indices, old_index) ==
    IF Len(heel_strike_indices) = 0 THEN << >>
    ELSE <<Slice(signal, old_index, Head(heel_strike_indices))>>
             \o ChopLoopStaleIndex(signal, Tail(heel_strike_indices), old_index)

\* the loop of get_stride_list: one chop signal[old_index:index] per index
RECURSIVE ChopLoop(_, _, _)
ChopLoop(signal, heel_strike_indices, old_index) ==
    IF Len(heel_strike_indices) = 0 THEN << >>
    ELSE LET index == Head(heel_strike_indices)
         IN  <<Slice(signal, old_index, index)>>
                 \o ChopLoop(signal, Tail(heel_strike_indices), index)

RECURSIVE ChopLoopKeep(_, _, _)
ChopLoopKeep(signal, heel_strike_indices, old_index) ==
    IF Len(heel_strike_indices) = 0 THEN << >>
    ELSE <<Slice(signal, old_index, Head(heel_strike_indices))>>
             \o ChopLoopKeep(signal, Tail(heel_strike_indices), Head(heel_strike_indices))

\* get_stride_list that keeps the leading segment (no pop(0))
get_stride_list_no_pop(signal, heel_strike_indices) ==
    [exc |-> "none", val |-> ChopLoopKeep(signal, heel_strike_indices, 0)]

\* get_stride_list(signal, heel_strike_indices); pop(0) on an empty list
\* raises IndexError
get_stride_list(signal, heel_strike_indices) ==
    LET strides_list == ChopLoop(signal, heel_strike_indices, 0)
    IN  IF Len(strides_list) = 0
        THEN [exc |-> "IndexError", val |-> << >>]
        ELSE [exc |-> "none", val |-> Tail(strides_list)]

\* lines 121-122 without the test: the last event is always dropped
DropFinalEventAlways(heel_strike_indices, phase) ==
    SubSeq(heel_strike_indices, 1, Len(heel_strike_indices) - 1)

\* lines 121-122 left out: the last event is never dropped
DropFinalEventNever(heel_strike_indices, phase) == heel_strike_indices

\* lines 121-122: the event on the last sample is dropped
DropFinalEvent(heel_strike_indices, phase) ==
    IF heel_strike_indices[Len(heel_strike_indices)] = Len(phase) - 1
    THEN SubSeq(heel_strike_indices, 1, Len(heel_strike_indices) - 1)
    ELSE heel_strike_indices

\* trial_strides(phase, trial); heel_strike_indices[-1] on an empty array
\* raises IndexError
trial_strides(phase, trial) ==
    LET found == WhereZero(phase, 0)
    IN  IF Len(found) = 0
        THEN [exc |-> "IndexError",
              frame |-> [heel_strike_indices |-> found],
              val |-> EmptyDict]
        ELSE LET heel_strike_indices == DropFinalEvent(found, phase)
                 rs == [signal_name \in DOMAIN trial |->
                           get_stride_list(trial[signal_name], heel_strike_indices)]
             IN  [exc |-> FirstExc(rs, DOMAIN trial),
                  frame |-> [heel_strike_indices |-> heel_strike_indices],
                  val |-> [signal_name \in DOMAIN trial |-> rs[signal_name].val]]

\* Lerp whose slope is applied from the knot before a: the point lies a
\* whole step too far
LerpOvershoot(a, b, r, m) ==
    Rat(a.n * b.d * m + (b.n * a.d - a.n * b.d) * (r + m), a.d * b.d * m)

\* a + (b - a) * r / m
Lerp(a, b, r, m) ==
    Rat(a.n * b.d * m + (b.n * a.d - a.n * b.d) * r, a.d * b.d * m)

\* ResampleAt on a target domain that leaves out its end point
\* (np.linspace(..., endpoint=False)): the steps are 1/num, not 1/(num-1)
ResampleAtOpenEnd(fp, num, k) ==
    IF Len(fp) = 1 \/ num = 1 THEN fp[1]
    ELSE LET pos == (k - 1) * (Len(fp) - 1)
             j == pos \div num
             r == pos % num
         IN  IF r = 0 THEN fp[j + 1] ELSE Lerp(fp[j + 1], fp[j + 2], r, num)

\* np.interp(np.linspace(0, 100, num), np.linspace(0, 100, len(fp)), fp) at
\* point k of the target domain, len(fp) >= 1.  Both domains are uniform, so
\* with pos = (k-1)*(len(fp)-1) the source interval is j = pos \div (num-1)
\* and the point lies (pos % (num-1))/(num-1) of the way through it.
ResampleAt(fp, num, k) ==
    IF Len(fp) = 1 \/ num = 1 THEN fp[1]
    ELSE LET pos == (k - 1) * (Len(fp) - 1)
             j == pos \div (num - 1)
             r == pos % (num - 1)
         IN  IF r = 0 THEN fp[j + 1] ELSE Lerp(fp[j + 1], fp[j + 2], r, num - 1)

\* normalize_stride that resamples on a domain of the stride's own length
normalize_stride_own_length(stride_long) ==
    IF Len(stride_long) = 0
    THEN [exc |-> "ValueError", val |-> << >>]
    ELSE [exc |-> "none",
          val |-> [k \in 1..Len(stride_long) |->
                      ResampleAt(stride_long, Len(stride_long), k)]]

\* lines 178-189: one stride resampled on the 500-point gait-percent domain;
\* np.interp raises ValueError on an empty stride
normalize_stride(stride_long) ==
    IF Len(stride_long) = 0
    THEN [exc |-> "ValueError", val |-> << >>]
    ELSE [exc |-> "none",
          val |-> [k \in 1..CanonicalLen |-> ResampleAt(stride_long, CanonicalLen, k)]]

\* the same, written out call by call as the code has it
normalize_stride_by_calls(stride_long) ==
    LET percent_gait_long == linspace(Len(stride_long))
        percent_gait_short == linspace(CanonicalLen)
    IN  interp(percent_gait_short, percent_gait_long, stride_long)

\* np.array(norm_stride).transpose(): K rows of equal length give the shape
\* (length, K); an empty list gives the one-dimensional shape (0,)
ArrayTranspose(norm_stride) ==
    IF Len(norm_stride) = 0
    THEN [shape |-> <<0>>, cols |-> << >>]
    ELSE [shape |-> <<Len(norm_stride[1]), Len(norm_stride)>>, cols |-> norm_stride]

\* normalize_trial_strides(strides)
normalize_trial_strides(strides) ==
    LET rs == [signal \in DOMAIN strides |->
                  [k \in 1..Len(strides[signal]) |-> normalize_stride(strides[signal][k])]]
        bad == {signal \in DOMAIN strides :
                   \E k \in 1..Len(strides[signal]) : rs[signal][k].exc # "none"}
    IN  IF bad # {}
        THEN [exc |-> "ValueError", val |-> EmptyDict]
        ELSE [exc |-> "none",
              val |-> [signal \in DOMAIN strides |->
                          ArrayTranspose([k \in 1..Len(strides[signal]) |->
                                             rs[signal][k].val])]]

\* pd.DataFrame(data=strides_array, columns=column_names)
DataFrame(strides_array, column_names) ==
    IF Len(strides_array.shape) = 2 /\ strides_array.shape[2] = Len(column_names)
    THEN [exc |-> "none",
          val |-> [columns |-> column_names, values |-> strides_array]]
    ELSE [exc |-> "ValueError", val |-> EmptyDict]

\* package_strides(strides_filtered_norm, strides_raw_norm)
package_strides(strides_filtered_norm, strides_raw_norm) ==
    IF "GRFz (N)" \notin DOMAIN strides_filtered_norm
    THEN [exc |-> "KeyError", val |-> EmptyDict]
    ELSE IF Len(strides_filtered_norm["GRFz (N)"].shape) < 2
    THEN [exc |-> "IndexError", val |-> EmptyDict]
    ELSE
      LET num_strides == strides_filtered_norm["GRFz (N)"].shape[2]
          column_names == [i \in 1..num_strides |-> "Stride " \o str(i - 1)]
          dfs == [signal_name \in DOMAIN strides_filtered_norm |->
                     DataFrame(strides_filtered_norm[signal_name], column_names)]
      IN  IF FirstExc(dfs, DOMAIN dfs) # "none"
          THEN [exc |-> FirstExc(dfs, DOMAIN dfs), val |-> EmptyDict]
          ELSE IF "Gait Phase (%)" \notin DOMAIN strides_raw_norm
          THEN [exc |-> "KeyError", val |-> EmptyDict]
          ELSE LET df == DataFrame(strides_raw_norm["Gait Phase (%)"], column_names)
               IN  IF df.exc # "none"
                   THEN [exc |-> df.exc, val |-> EmptyDict]
                   ELSE [exc |-> "none",
                         val |-> Put([signal_name \in DOMAIN dfs |-> dfs[signal_name].val],
                                     "Gait Phase (%)", df.val)]

\* segment_slice that slices the raw trial by the phase trace moved one
\* sample ahead
segment_slice_shifted(participant_data, file) ==
    LET trial_filtered == participant_data["filtered signals"][file]
        trial_raw == participant_data["raw signals"][file]
        phase == trial_raw["Gait Phase (%)"]
        f0 == [x \in {"phase"} |-> phase]
        tf == trial_strides(phase, trial_filtered)
        c1 == [x \in {"filtered"} |-> tf.frame]
        f1 == Put(f0, "strides_filtered", tf.val)
        tr == trial_strides(Tail(phase) \o <<RInt(50)>>, trial_raw)
        c2 == Put(c1, "raw", tr.frame)
        f2 == Put(f1, "strides_raw", tr.val)
    IN  IF tf.exc # "none" THEN [exc |-> tf.exc, frame |-> f0, calls |-> c1]
        ELSE IF tr.exc # "none" THEN [exc |-> tr.exc, frame |-> f1, calls |-> c2]
        ELSE [exc |-> "none", frame |-> f2, calls |-> c2]

\* lines 306-313 of segment_strides: the trial is read and sliced
segment_slice(participant_data, file) ==
    IF    \/ "filtered signals" \notin DOMAIN participant_data
          \/ file \notin DOMAIN participant_data["filtered signals"]
          \/ file \notin DOMAIN participant_data["raw signals"]
          \/ "Gait Phase (%)" \notin DOMAIN participant_data["raw signals"][file]
    THEN [exc |-> "KeyError", frame |-> EmptyDict, calls |-> EmptyDict]
    ELSE
      LET trial_filtered == participant_data["filtered signals"][file]
          trial_raw == participant_data["raw signals"][file]
          phase == trial_raw["Gait Phase (%)"]
          f0 == [x \in {"phase"} |-> phase]
          tf == trial_strides(phase, trial_filtered)
          c1 == [x \in {"filtered"} |-> tf.frame]
          f1 == Put(f0, "strides_filtered", tf.val)
          tr == trial_strides(phase, trial_raw)
          c2 == Put(c1, "raw", tr.frame)
          f2 == Put(f1, "strides_raw", tr.val)
      IN  IF tf.exc # "none" THEN [exc |-> tf.exc, frame |-> f0, calls |-> c1]
          ELSE IF tr.exc # "none" THEN [exc |-> tr.exc, frame |-> f1, calls |-> c2]
          ELSE [exc |-> "none", frame |-> f2, calls |-> c2]

\* lines 316-317 of segment_strides: both stride sets are normalized
segment_normalize(frame) ==
    LET nf == normalize_trial_strides(frame["strides_filtered"])
        f3 == Put(frame, "strides_filtered_norm", nf.val)
        nr == normalize_trial_strides(frame["strides_raw"])
        f4 == Put(f3, "strides_raw_norm", nr.val)
    IN  IF nf.exc # "none" THEN [exc |-> nf.exc, frame |-> frame]
        ELSE IF nr.exc # "none" THEN [exc |-> nr.exc, frame |-> f3]
        ELSE [exc |-> "none", frame |-> f4]

\* lines 321-322 of segment_strides: the normalized strides are packaged
segment_package(frame) ==
    LET pk == package_strides(frame["strides_filtered_norm"], frame["strides_raw_norm"])
    IN  IF pk.exc # "none" THEN [exc |-> pk.exc, frame |-> frame]
        ELSE [exc |-> "none", frame |-> Put(frame, "signals_dict", pk.val)]

(***************************************************************************)
(* The recorded trials                                                     *)
(***************************************************************************)
\* time = np.arange(0, len(data)/sampFreqHz, 1/sampFreqHz)
TimeColumn(n) == [k \in 1..n |-> Rat(k - 1, sampFreqHz)]

\* sensor samples of file number f: a force trace and a torque trace that
\* takes both signs, different in every file and at every sample
ForceColumn(f, n) == [k \in 1..n |-> RInt(((k + f) * (k + 2)) % 23)]
TorqueColumn(f, n) == [k \in 1..n |-> RInt(((3 * k + 5 * f) % 11) - 4)]

\* the frame tdms_to_dataframe returns for file number f with this phase trace
RawTrial(f, phase) ==
    [name \in RawNames |->
        CASE name = "Time" -> TimeColumn(Len(phase))
          [] name = "GRFz (N)" -> ForceColumn(f, Len(phase))
          [] name = "Joint Torque (Nm)" -> TorqueColumn(f, Len(phase))
          [] name = "Gait Phase (%)" -> [k \in 1..Len(phase) |-> RInt(phase[k])]]

FileIndex(file) == CHOOSE f \in 1..Len(FileNames) : FileNames[f] = file
FileSet == {FileNames[f] : f \in 1..Len(FileNames)}

\* import_multiple_participant_data(participant): raw trials, metadata and
\* file names of every participant
ImportedData(phases) ==
    [p \in {Participants[i] : i \in 1..Len(Participants)} |->
        [key \in {"raw signals", "metadata", "file names"} |->
            CASE key = "raw signals" ->
                     [file \in FileSet |-> RawTrial(FileIndex(file), phases[FileIndex(file)])]
              [] key = "metadata" -> [file \in FileSet |-> << >>]
              [] key = "file names" -> FileNames]]

Init ==
    /\ \E phases \in [1..Len(FileNames) -> [1..NumDatapoints -> PhaseValues]] :
           data = ImportedData(phases)
    /\ pc = "imported"
    /\ at = "-"
    /\ exc = "none"
    /\ part_i = 0
    /\ file_i = 0
    /\ participant_strides = EmptyDict
    /\ locals = EmptyDict
    /\ calls = EmptyDict

(***************************************************************************)
(* main_gait_pipeline.py: the stages, in the order the script calls them   *)
(***************************************************************************)
ParticipantSet == {Participants[i] : i \in 1..Len(Participants)}

\* `for participant in data`: the keys of the dict in insertion order
Keys(d) == SelectSeq(AllParticipants, LAMBDA p : p \in DOMAIN d)

\* filters.filter_signals(data, filter_frequencies), lines 141-152
RECURSIVE FilterLoop(_, _)
FilterLoop(d, i) ==
    IF i > Len(Keys(d)) THEN [exc |-> "none", data |-> d]
    ELSE LET participant == Keys(d)[i]
             r == filter_participant_trials(d[participant]["raw signals"], FilteredNames)
         IN  IF r.exc # "none" THEN [exc |-> r.exc, data |-> d]
             ELSE FilterLoop([d EXCEPT ![participant] =
                                 Put(d[participant], "filtered signals", r.val)], i + 1)

FilterSignals ==
    /\ pc = "imported"
    /\ LET r == FilterLoop(data, 1)
       IN  /\ data' = r.data
           /\ exc' = r.exc
           /\ pc' = IF r.exc = "none" THEN "filtered" ELSE "error"
    /\ UNCHANGED <<at, part_i, file_i, participant_strides, locals, calls>>

\* gait_cycles.segment_strides(data) is called
SegmentCall ==
    /\ pc = "filtered"
    /\ pc' = "segment"
    /\ at' = "participant"
    /\ part_i' = 1
    /\ UNCHANGED <<data, exc, file_i, participant_strides, locals, calls>>

\* lines 296-303: the next participant is taken up
SegmentParticipant ==
    /\ pc = "segment"
    /\ at = "participant"
    /\ part_i <= Len(Keys(data))
    /\ participant_strides' = EmptyDict
    /\ file_i' = 1
    /\ at' = "file"
    /\ UNCHANGED <<data, pc, exc, part_i, locals, calls>>

\* a step of the file loop ends: it goes on at `to`, or the exception leaves
\* segment_strides
Step(r, to) ==
    /\ exc' = r.exc
    /\ at' = IF r.exc = "none" THEN to ELSE at
    /\ pc' = IF r.exc = "none" THEN pc ELSE "error"

\* lines 304-313: the next file is taken up and its signals are sliced
SegmentSlice ==
    /\ pc = "segment"
    /\ at = "file"
    /\ file_i <= Len(data[Keys(data)[part_i]]["file names"])
    /\ LET participant_data == data[Keys(data)[part_i]]
           file == participant_data["file names"][file_i]
           r == segment_slice(participant_data, file)
       IN  /\ locals' = Put(Put(r.frame, "file", file), "participant", Keys(data)[part_i])
           /\ calls' = r.calls
           /\ Step(r, "normalize")
    /\ UNCHANGED <<data, part_i, file_i, participant_strides>>

\* lines 316-317
SegmentNormalize ==
    /\ pc = "segment"
    /\ at = "normalize"
    /\ LET r == segment_normalize(locals)
       IN  /\ locals' = r.frame
           /\ Step(r, "package")
    /\ UNCHANGED <<data, part_i, file_i, participant_strides, calls>>

\* the file loop storing the container in the data after every file
SegmentPackageStoresEarly ==
    /\ pc = "segment"
    /\ at = "package"
    /\ LET r == segment_package(locals)
       IN  /\ locals' = r.frame
           /\ Step(r, "file")
           /\ IF r.exc = "none"
              THEN /\ participant_strides' =
                          Put(participant_strides, locals["file"], r.frame["signals_dict"])
                   /\ file_i' = file_i + 1
                   /\ data' = [data EXCEPT ![Keys(data)[part_i]] =
                                   Put(data[Keys(data)[part_i]], "strides",
                                       participant_strides')]
              ELSE UNCHANGED <<participant_strides, file_i, data>>
    /\ UNCHANGED <<part_i, calls>>

\* lines 321-325: the strides are packaged and put into the container
SegmentPackage ==
    /\ pc = "segment"
    /\ at = "package"
    /\ LET r == segment_package(locals)
       IN  /\ locals' = r.frame
           /\ Step(r, "file")
           /\ IF r.exc = "none"
              THEN /\ participant_strides' =
                          Put(participant_strides, locals["file"], r.frame["signals_dict"])
                   /\ file_i' = file_i + 1
              ELSE UNCHANGED <<participant_strides, file_i>>
    /\ UNCHANGED <<data, part_i, calls>>

\* line 327: the participant's strides are stored
SegmentStore ==
    /\ pc = "segment"
    /\ at = "file"
    /\ file_i > Len(data[Keys(data)[part_i]]["file names"])
    /\ data' = [data EXCEPT ![Keys(data)[part_i]] =
                    Put(data[Keys(data)[part_i]], "strides", participant_strides)]
    /\ part_i' = part_i + 1
    /\ at' = "participant"
    /\ UNCHANGED <<pc, exc, file_i, participant_strides, locals, calls>>

\* line 329
SegmentReturn ==
    /\ pc = "segment"
    /\ at = "participant"
    /\ part_i > Len(Keys(data))
    /\ pc' = "segmented"
    /\ at' = "-"
    /\ UNCHANGED <<data, exc, part_i, file_i, participant_strides, locals, calls>>

Next ==
    \/ FilterSignals
    \/ SegmentCall
    \/ SegmentParticipant
    \/ SegmentSlice
    \/ SegmentNormalize
    \/ SegmentPackage
    \/ SegmentStore
    \/ SegmentReturn

Spec == Init /\ [][Next]_vars

(***************************************************************************)
(* The stride normalizer on its own: normalize_trial_strides applied to    *)
(* stride lists of chosen lengths, and applied again to its own output     *)
(***************************************************************************)
\* stride lengths below, at and above the canonical length
StrideLengths == {0, 1, 2, 200, CanonicalLen - 1, CanonicalLen, CanonicalLen + 1, 1500}

\* the lengths of the strides of one trial: none, one or two strides
StrideLengthLists ==
    {<< >>} \cup {<<a>> : a \in StrideLengths}
            \cup {<<a, b>> : a \in StrideLengths, b \in StrideLengths}

NormSignals == {"GRFz (N)", "Gait Phase (%)"}

\* sample i of stride k of a signal under pattern a: fractions of both signs
PatternSample(signal, a, k, i) ==
    Rat(((a * i * i + 7 * i + k + (IF signal = "GRFz (N)" THEN 0 ELSE 5)) % 41) - 13,
        1 + (i % 3))

PatternStrides(lengths, a) ==
    [signal \in NormSignals |->
        [k \in 1..Len(lengths) |->
            [i \in 1..lengths[k] |-> PatternSample(signal, a, k, i)]]]

NormInit ==
    /\ \E lengths \in StrideLengthLists, a \in 1..NumPatterns :
           locals = [x \in {"strides"} |-> PatternStrides(lengths, a)]
    /\ pc = "strides"
    /\ at = "-"
    /\ exc = "none"
    /\ part_i = 0
    /\ file_i = 0
    /\ data = EmptyDict
    /\ participant_strides = EmptyDict
    /\ calls = EmptyDict

\* normalized_strides = normalize_trial_strides(strides)
NormalizeCall ==
    /\ pc = "strides"
    /\ LET r == normalize_trial_strides(locals["strides"])
       IN  /\ exc' = r.exc
           /\ pc' = IF r.exc = "none" THEN "normalized" ELSE "error"
           /\ locals' = IF r.exc = "none"
                        THEN Put(locals, "normalized_strides", r.val)
                        ELSE locals
    /\ UNCHANGED <<data, at, part_i, file_i, participant_strides, calls>>

\* the columns of the normalized matrices, normalized once more
RenormalizeCall ==
    /\ pc = "normalized"
    /\ LET again == [signal \in DOMAIN locals["normalized_strides"] |->
                        locals["normalized_strides"][signal].cols]
           r == normalize_trial_strides(again)
       IN  /\ exc' = r.exc
           /\ pc' = IF r.exc = "none" THEN "renormalized" ELSE "error"
           /\ locals' = IF r.exc = "none"
                        THEN Put(locals, "renormalized_strides", r.val)
                        ELSE locals
    /\ UNCHANGED <<data, at, part_i, file_i, participant_strides, calls>>

NextNorm ==
    \/ NormalizeCall
    \/ RenormalizeCall

SpecNorm == NormInit /\ [][NextNorm]_vars

\* the closed form of ResampleAt gives what the calls of lines 178-189 give
ResampleIsInterp ==
    pc = "strides" =>
        \A signal \in DOMAIN locals["strides"] :
            \A k \in 1..Len(locals["strides"][signal]) :
                normalize_stride(locals["strides"][signal][k])
                    = normalize_stride_by_calls(locals["strides"][signal][k])

(***************************************************************************)
(* What the claims read from a state                                       *)
(***************************************************************************)
Kinds == {"filtered", "raw"}
StridesKey(kind) == IF kind = "filtered" THEN "strides_filtered" ELSE "strides_raw"
NormKey(kind) == IF kind = "filtered" THEN "strides_filtered_norm" ELSE "strides_raw_norm"
SignalsKey(kind) == IF kind = "filtered" THEN "filtered signals" ELSE "raw signals"

\* the trial_strides call on this trial of the current file has returned
Returned(kind) == StridesKey(kind) \in DOMAIN locals
StridesOf(kind) == locals[StridesKey(kind)]
HeelStrikes(kind) == calls[kind]["heel_strike_indices"]
\* the frame of signals the call sliced
TrialOf(kind) == data[locals["participant"]][SignalsKey(kind)][locals["file"]]
\* the 0-based sample index a value of the Time column stands for
SampleIndex(t) == (t.n * sampFreqHz) \div t.d
Elems(seq) == {seq[i] : i \in 1..Len(seq)}

RECURSIVE SumLen(_)
SumLen(strides) == IF Len(strides) = 0 THEN 0 ELSE Len(Head(strides)) + SumLen(Tail(strides))

(***************************************************************************)
(* C1: get_stride_list, given N >= 1 heel strikes, returns N-1 strides,    *)
(* and the samples before the first heel strike are in none of them.       *)
(***************************************************************************)
C1_StrideCount ==
    \A kind \in Kinds :
        Returned(kind) =>
            LET hs == HeelStrikes(kind)
                strides == StridesOf(kind)
            IN  /\ Len(hs) >= 1
                /\ \A s \in DOMAIN strides :
                      /\ Len(strides[s]) = Len(hs) - 1
                      /\ SumLen(strides[s]) = hs[Len(hs)] - hs[1]
                /\ kind = "raw" =>
                      \A k \in 1..Len(strides["Time"]) :
                          \A t \in Elems(strides["Time"][k]) : SampleIndex(t) >= hs[1]

\* two heel strikes, the first after sample 0: a leading segment is dropped
C1_Witness ==
    /\ Returned("raw")
    /\ Len(HeelStrikes("raw")) >= 2
    /\ HeelStrikes("raw")[1] > 0
    /\ Len(StridesOf("raw")["Time"]) >= 1

(***************************************************************************)
(* C2: stride k is exactly signal[hs[k] : hs[k+1]], start inclusive and    *)
(* end exclusive; the samples from the last heel strike on are in no       *)
(* stride.                                                                 *)
(***************************************************************************)
C2_StrideIsRange ==
    \A kind \in Kinds :
        Returned(kind) =>
            LET hs == HeelStrikes(kind)
                strides == StridesOf(kind)
                trial == TrialOf(kind)
            IN  /\ \A s \in DOMAIN strides :
                      /\ DOMAIN strides[s] = 1..(Len(hs) - 1)
                      /\ \A k \in 1..(Len(hs) - 1) :
                            strides[s][k] =
                                [i \in 1..(hs[k + 1] - hs[k]) |-> trial[s][hs[k] + i]]
                /\ kind = "raw" =>
                      \A k \in 1..Len(strides["Time"]) :
                          \A t \in Elems(strides["Time"][k]) : SampleIndex(t) < hs[Len(hs)]

\* three heel strikes: two consecutive strides, and samples after the last
C2_Witness ==
    /\ Returned("raw")
    /\ Len(HeelStrikes("raw")) >= 3
    /\ Len(StridesOf("raw")["GRFz (N)"]) = 2
    /\ HeelStrikes("raw")[3] < NumDatapoints - 1

(***************************************************************************)
(* C3: one heel-strike set slices every signal of a trial, filtered and    *)
(* raw: stride k of any two signals has the same length and covers the     *)
(* same sample indices.                                                    *)
(***************************************************************************)
C3_SameHeelStrikes ==
    Returned("raw") =>
        LET sf == StridesOf("filtered")
            sr == StridesOf("raw")
            time == sr["Time"]
        IN  /\ Returned("filtered")
            /\ HeelStrikes("filtered") = HeelStrikes("raw")
            /\ \A kind \in Kinds :
                  \A s \in DOMAIN StridesOf(kind) :
                      LET strides == StridesOf(kind)[s]
                      IN  /\ Len(strides) = Len(time)
                          /\ \A k \in 1..Len(strides) :
                                /\ Len(strides[k]) = Len(time[k])
                                /\ \A i \in 1..Len(strides[k]) :
                                      strides[k][i] =
                                          TrialOf(kind)[s][SampleIndex(time[k][i]) + 1]

\* a trial with two strides in the filtered and in the raw signals
C3_Witness ==
    /\ Returned("raw")
    /\ Len(StridesOf("filtered")["Joint Torque (Nm)"]) = 2
    /\ Len(StridesOf("raw")["Gait Phase (%)"]) = 2
    /\ Len(StridesOf("raw")["Time"][2]) >= 1

(***************************************************************************)
(* C4: the phase-based detector reports index i exactly when phase[i] is   *)
(* zero, except that an event on the final sample is removed.              *)
(***************************************************************************)
C4_EventsAreZeros ==
    \A kind \in DOMAIN calls :
        LET phase == locals["phase"]
        IN  Elems(HeelStrikes(kind)) =
                {i \in 0..(Len(phase) - 2) : phase[i + 1].n = 0}

\* zeros on the final sample and elsewhere, and a sample that is not zero
C4_Witness ==
    /\ "raw" \in DOMAIN calls
    /\ locals["phase"][NumDatapoints].n = 0
    /\ Len(HeelStrikes("raw")) >= 2
    /\ \E i \in 1..NumDatapoints : locals["phase"][i].n # 0

(***************************************************************************)
(* C5: the heel-strike indices are strictly increasing and lie in          *)
(* [0, len(phase)-1); none is the final sample index.                      *)
(***************************************************************************)
C5_EventsOrdered ==
    \A kind \in DOMAIN calls :
        LET hs == HeelStrikes(kind)
        IN  /\ \A j \in 1..Len(hs) : hs[j] >= 0 /\ hs[j] < Len(locals["phase"]) - 1
            /\ \A j \in 1..(Len(hs) - 1) : hs[j] < hs[j + 1]

\* the phase is zero on the final sample and the call found other events
C5_Witness ==
    /\ Returned("raw")
    /\ locals["phase"][NumDatapoints].n = 0
    /\ Len(HeelStrikes("raw")) >= 2
    /\ Len(HeelStrikes("filtered")) >= 2

(***************************************************************************)
(* C6: sample index 0 is never in the heel-strike set used for slicing.    *)
(***************************************************************************)
C6_IndexZeroNeverEvent ==
    \A kind \in Kinds :
        Returned(kind) => \A j \in 1..Len(HeelStrikes(kind)) : HeelStrikes(kind)[j] # 0

(***************************************************************************)
(* C7: a phase signal without a valid crossing (no zero, or a zero only on *)
(* the final sample) gives an empty heel-strike set and zero strides for   *)
(* every signal, and nothing is raised.                                    *)
(***************************************************************************)
NoValidCrossing(phase) == \A i \in 1..(Len(phase) - 1) : phase[i].n # 0

C7_NoCrossingNoRaise ==
    (pc \in {"segment", "error"} /\ "phase" \in DOMAIN locals
                                 /\ NoValidCrossing(locals["phase"])) =>
        /\ exc = "none"
        /\ \A kind \in Kinds :
              /\ Returned(kind)
              /\ Len(HeelStrikes(kind)) = 0
              /\ \A s \in DOMAIN StridesOf(kind) : Len(StridesOf(kind)[s]) = 0

(***************************************************************************)
(* C8: every normalized stride has exactly 500 samples, whatever the       *)
(* length of the stride it comes from, for every stride and every signal.  *)
(***************************************************************************)
C8_CanonicalLength ==
    pc \in {"normalized", "renormalized"} =>
        \A signal \in DOMAIN locals["normalized_strides"] :
            LET m == locals["normalized_strides"][signal]
            IN  /\ Len(m.cols) = Len(locals["strides"][signal])
                /\ \A k \in 1..Len(m.cols) : Len(m.cols[k]) = CanonicalLen
                /\ Len(m.cols) >= 1 => m.shape[1] = CanonicalLen

\* one trial with a stride shorter and a stride longer than 500 samples
C8_Witness ==
    /\ pc = "normalized"
    /\ \E signal \in DOMAIN locals["strides"] :
           /\ Len(locals["strides"][signal]) = 2
           /\ Len(locals["strides"][signal][1]) < CanonicalLen
           /\ Len(locals["strides"][signal][2]) > CanonicalLen
           /\ Len(locals["normalized_strides"][signal].cols) = 2

(***************************************************************************)
(* C9: a stride that already has the canonical length is returned sample   *)
(* for sample, so normalizing a normalized stride again changes nothing.   *)
(***************************************************************************)
C9_Idempotent ==
    /\ pc \in {"normalized", "renormalized"} =>
          \A signal \in DOMAIN locals["strides"] :
              \A k \in 1..Len(locals["strides"][signal]) :
                  Len(locals["strides"][signal][k]) = CanonicalLen =>
                      locals["normalized_strides"][signal].cols[k]
                          = locals["strides"][signal][k]
    /\ pc = "renormalized" =>
          locals["renormalized_strides"] = locals["normalized_strides"]

\* a stride of 500 samples was normalized, and its output normalized again
\* together with the output of a stride of another length
C9_Witness ==
    /\ pc = "renormalized"
    /\ \E signal \in DOMAIN locals["strides"] :
           /\ Len(locals["strides"][signal]) = 2
           /\ Len(locals["strides"][signal][1]) = CanonicalLen
           /\ Len(locals["strides"][signal][2]) = 200
           /\ \E i \in 1..CanonicalLen :
                  locals["strides"][signal][1][i] # locals["strides"][signal][1][1]

(***************************************************************************)
(* C10: for a trial with K strides, K >= 0, every normalized signal is a   *)
(* matrix of 500 rows and K columns, and package_strides labels the        *)
(* columns 'Stride 0' .. 'Stride K-1' for every signal.                    *)
(***************************************************************************)
StrideLabels(K) == [i \in 1..K |-> "Stride " \o str(i - 1)]

C10_MatrixShape ==
    /\ \A kind \in Kinds :
          NormKey(kind) \in DOMAIN locals =>
              \A s \in DOMAIN locals[NormKey(kind)] :
                  locals[NormKey(kind)][s].shape
                      = <<CanonicalLen, Len(StridesOf(kind)[s])>>
    /\ ("strides_raw_norm" \in DOMAIN locals /\ at # "package") =>
          /\ "signals_dict" \in DOMAIN locals
          /\ \A s \in DOMAIN locals["signals_dict"] :
                locals["signals_dict"][s].columns
                    = StrideLabels(Len(StridesOf("raw")["Gait Phase (%)"]))

(***************************************************************************)
(* Floats that may be irrational: np.std and np.sqrt take square roots.    *)
(* Such a value is a sum of rational multiples of square roots of          *)
(* square-free integers, [c |-> coefficient, r |-> radicand] per term,     *)
(* one term per radicand and no zero coefficient.  Square roots of         *)
(* distinct square-free integers are linearly independent over the         *)
(* rationals, so two values are equal exactly when their terms are equal.  *)
(* nan is the float NaN.                                                   *)
(***************************************************************************)
RealZero == [terms |-> {}, nan |-> FALSE]
RealNaN == [terms |-> {}, nan |-> TRUE]

\* the rational q as such a value
Real(q) == IF q.n = 0 THEN RealZero
           ELSE [terms |-> {[c |-> q, r |-> 1]}, nan |-> FALSE]

\* the coefficient of sqrt(r) in x
Coef(x, r) == IF \E t \in x.terms : t.r = r
              THEN (CHOOSE t \in x.terms : t.r = r).c
              ELSE RInt(0)

RealAdd(x, y) ==
    IF x.nan \/ y.nan THEN RealNaN
    ELSE [terms |-> {t \in {[c |-> RAdd(Coef(x, r), Coef(y, r)), r |-> r] :
                               r \in {u.r : u \in x.terms \cup y.terms}} : t.c.n # 0},
          nan |-> FALSE]

\* x times the rational q
RealScale(x, q) ==
    IF x.nan THEN RealNaN
    ELSE IF q.n = 0 THEN RealZero
    ELSE [terms |-> {[c |-> RMul(t.c, q), r |-> t.r] : t \in x.terms}, nan |-> FALSE]

\* the largest s from `s` on with s*s dividing N, or best
RECURSIVE LargestSquare(_, _, _)
LargestSquare(N, s, best) ==
    IF s * s > N THEN best
    ELSE LargestSquare(N, s + 1, IF N % (s * s) = 0 THEN s ELSE best)

\* np.sqrt of the rational v: sqrt(n/d) = sqrt(n*d)/d = (s/d)*sqrt(f) where
\* n*d = s*s*f and f is square-free; NaN for a negative v
sqrt(v) ==
    IF v.n < 0 THEN RealNaN
    ELSE IF v.n = 0 THEN RealZero
    ELSE LET N == v.n * v.d
             s == LargestSquare(N, 1, 1)
         IN  [terms |-> {[c |-> Rat(s, v.d), r |-> N \div (s * s)]}, nan |-> FALSE]

\* x is a rational number, and which
IsRational(x) == ~x.nan /\ \A t \in x.terms : t.r = 1
RatOf(x) == Coef(x, 1)

\* every term of x is positive or absent: x >= 0
RealNonNeg(x) == ~x.nan /\ \A t \in x.terms : t.c.n > 0

RECURSIVE RSum(_)
RSum(xs) == IF Len(xs) = 0 THEN RInt(0) ELSE RAdd(Head(xs), RSum(Tail(xs)))

(***************************************************************************)
(* averages.py                                                             *)
(***************************************************************************)
\* row i of a (rows, K) array: one sample of every stride
Row(strides_array, i) ==
    [k \in 1..Len(strides_array.cols) |-> strides_array.cols[k][i]]

\* np.mean(xs) of a one-dimensional array of at least one rational
MeanOf(xs) == RDiv(RSum(xs), RInt(Len(xs)))

\* the sum of squared deviations of xs from their mean, divided by `divisor`
SpreadOf(xs, divisor) ==
    RDiv(RSum([k \in 1..Len(xs) |->
                  RMul(RSub(xs[k], MeanOf(xs)), RSub(xs[k], MeanOf(xs)))]),
         RInt(divisor))

\* np.mean(strides_array, axis=1)
np_mean(strides_array) ==
    [i \in 1..strides_array.shape[1] |->
        IF strides_array.shape[2] = 0 THEN RealNaN
        ELSE Real(MeanOf(Row(strides_array, i)))]

\* np.std with the divisor N - 1 of the sample statistic
np_std_sample(strides_array) ==
    [i \in 1..strides_array.shape[1] |->
        IF strides_array.shape[2] < 2 THEN RealNaN
        ELSE sqrt(SpreadOf(Row(strides_array, i), strides_array.shape[2] - 1))]

\* np.std that does not subtract the mean: the root of the mean square
np_std_rms(strides_array) ==
    [i \in 1..strides_array.shape[1] |->
        IF strides_array.shape[2] = 0 THEN RealNaN
        ELSE sqrt(MeanOf([k \in 1..strides_array.shape[2] |->
                             RMul(Row(strides_array, i)[k], Row(strides_array, i)[k])]))]

\* np.std(strides_array, axis=1): ddof is 0, the divisor is N
np_std(strides_array) ==
    [i \in 1..strides_array.shape[1] |->
        IF strides_array.shape[2] = 0 THEN RealNaN
        ELSE sqrt(SpreadOf(Row(strides_array, i), strides_array.shape[2]))]

\* trial_average_strides(trial); the two-column DataFrame is the record of
\* its columns 'Mean' and 'SD'
trial_average_strides(trial) ==
    [signal_name \in DOMAIN trial |->
        LET strides_array == trial[signal_name].values
            average_stride == np_mean(strides_array)
            sd_stride == np_std(strides_array)
        IN  [Mean |-> average_stride, SD |-> sd_stride]]

\* average_strides that takes a missing 'strides' entry for an empty one
RECURSIVE AverageLoopLenient(_, _)
AverageLoopLenient(d, i) ==
    IF i > Len(Keys(d)) THEN [exc |-> "none", data |-> d]
    ELSE LET participant == Keys(d)[i]
             participant_data == d[participant]
             stride_data == IF "strides" \in DOMAIN participant_data
                            THEN participant_data["strides"] ELSE EmptyDict
             averages == [file_name \in DOMAIN stride_data |->
                             trial_average_strides(stride_data[file_name])]
         IN  AverageLoopLenient([d EXCEPT ![participant] =
                                    Put(participant_data, "averages", averages)], i + 1)

\* lines 99-123 of average_strides, for participant number i onwards
RECURSIVE AverageLoop(_, _)
AverageLoop(d, i) ==
    IF i > Len(Keys(d)) THEN [exc |-> "none", data |-> d]
    ELSE LET participant == Keys(d)[i]
             participant_data == d[participant]
         IN  IF "strides" \notin DOMAIN participant_data
             THEN [exc |-> "KeyError", data |-> d]
             ELSE LET stride_data == participant_data["strides"]
                      averages == [file_name \in DOMAIN stride_data |->
                                      trial_average_strides(stride_data[file_name])]
                  IN  AverageLoop([d EXCEPT ![participant] =
                                      Put(participant_data, "averages", averages)], i + 1)

\* average_strides(data)
average_strides(d) == AverageLoop(d, 1)

\* the sum of two Series: pandas aligns them on their labels 0..n-1, and a
\* label that only one of them has gives NaN
SeriesAdd(signal_0, signal_1) ==
    [i \in 1..Max(Len(signal_0), Len(signal_1)) |->
        IF i <= Len(signal_0) /\ i <= Len(signal_1)
        THEN RealAdd(signal_0[i], signal_1[i])
        ELSE RealNaN]

\* mean_signal without the division by two
mean_signal_sum(signal_0, signal_1) == SeriesAdd(signal_0, signal_1)

\* mean_signal that takes its first argument twice
mean_signal_first(signal_0, signal_1) ==
    [i \in 1..Len(signal_0) |-> RealScale(RealAdd(signal_0[i], signal_0[i]), Rat(1, 2))]

\* mean_signal(signal_0, signal_1): (signal_0+signal_1)/2
mean_signal(signal_0, signal_1) ==
    LET total == SeriesAdd(signal_0, signal_1)
    IN  [i \in 1..Len(total) |-> RealScale(total[i], Rat(1, 2))]

\* merge_trials(averages, file_name_0, file_name_1): the loop runs over the
\* signals of trial_0 and looks each of them up in trial_1
merge_trials(averages, file_name_0, file_name_1) ==
    IF file_name_0 \notin DOMAIN averages \/ file_name_1 \notin DOMAIN averages
    THEN [exc |-> "KeyError", val |-> EmptyDict]
    ELSE LET trial_0 == averages[file_name_0]
             trial_1 == averages[file_name_1]
         IN  IF \E signal_name \in DOMAIN trial_0 : signal_name \notin DOMAIN trial_1
             THEN [exc |-> "KeyError", val |-> EmptyDict]
             ELSE [exc |-> "none",
                   val |-> [signal_name \in DOMAIN trial_0 |->
                               LET signal_0_mean == trial_0[signal_name]["Mean"]
                                   signal_1_mean == trial_1[signal_name]["Mean"]
                                   signal_0_sd == trial_0[signal_name]["SD"]
                                   signal_1_sd == trial_1[signal_name]["SD"]
                                   mean == mean_signal(signal_0_mean, signal_1_mean)
                                   sd == mean_signal(signal_0_sd, signal_1_sd)
                               IN  [Mean |-> mean, SD |-> sd]]]

(***************************************************************************)
(* The averaging functions on their own: trial_average_strides on two      *)
(* trials of small stride matrices, then merge_trials on the two averages  *)
(* in both orders.  The second trial may lack a signal of the first, have  *)
(* one more, or have shorter trajectories.                                 *)
(***************************************************************************)
\* the number of phase rows of a stride matrix (500 in the pipeline)
NumPhasePoints == 3
\* a trial has 1..MaxStrides strides
MaxStrides == 3
NumSeeds == 2

\* the three strides [1,2,3], [3,2,1], [2,2,2]
ExampleStrides == <<<<1, 2, 3>>, <<3, 2, 1>>, <<2, 2, 2>>>>

\* sample i of stride k of a signal: seed 1 holds the three example strides
\* as the force signal, every other sample takes both signs
AvgSample(seed, signal, k, i) ==
    IF seed = 1 /\ signal = "GRFz (N)" /\ k <= Len(ExampleStrides) /\ i <= Len(ExampleStrides[k])
    THEN ExampleStrides[k][i]
    ELSE (((seed + 1) * k * k + 3 * i * seed + k * i + (IF signal = "GRFz (N)" THEN 0 ELSE 4))
              % 7) - 2

\* the DataFrame package_strides builds for one signal: rows x K
StridesFrame(seed, signal, rows, K) ==
    [columns |-> [k \in 1..K |-> "Stride " \o str(k - 1)],
     values |-> [shape |-> <<rows, K>>,
                 cols |-> [k \in 1..K |->
                              [i \in 1..rows |-> RInt(AvgSample(seed, signal, k, i))]]]]

PackagedNames == FilteredNames \cup {"Gait Phase (%)"}

\* the signal sets of the second trial: that of the first, one less, one more
SecondTrialNames ==
    {PackagedNames, PackagedNames \ {"Joint Torque (Nm)"},
     PackagedNames \cup {"Exoskeleton Angle (deg)"}}

AvgTrial(seed, names, rows, K) ==
    [signal \in names |-> StridesFrame(seed, signal, rows, K)]

AvgInit ==
    /\ \E seed_0 \in 1..NumSeeds, seed_1 \in 1..NumSeeds,
          K_0 \in 1..MaxStrides, K_1 \in 1..MaxStrides,
          names_1 \in SecondTrialNames,
          rows_1 \in {NumPhasePoints - 1, NumPhasePoints} :
           data = [p \in ParticipantSet |->
                      [key \in {"file names", "strides"} |->
                          IF key = "file names" THEN FileNames
                          ELSE [file \in FileSet |->
                                   IF file = FileNames[1]
                                   THEN AvgTrial(seed_0, PackagedNames, NumPhasePoints, K_0)
                                   ELSE AvgTrial(seed_1 + NumSeeds, names_1, rows_1, K_1)]]]
    /\ pc = "segmented"
    /\ at = "-"
    /\ exc = "none"
    /\ part_i = 0
    /\ file_i = 0
    /\ participant_strides = EmptyDict
    /\ locals = EmptyDict
    /\ calls = EmptyDict

\* averages.average_strides(data)
AverageStrides ==
    /\ pc = "segmented"
    /\ LET r == average_strides(data)
       IN  /\ data' = r.data
           /\ exc' = r.exc
           /\ pc' = IF r.exc = "none" THEN "averaged" ELSE "error"
    /\ UNCHANGED <<at, part_i, file_i, participant_strides, locals, calls>>

\* merge_trials(averages, file_name_0, file_name_1) is called and its outcome
\* kept under `key`
MergeCall(key, file_name_0, file_name_1) ==
    /\ pc = "averaged"
    /\ key \notin DOMAIN locals
    /\ locals' = Put(locals, key,
                     merge_trials(data[Participants[1]]["averages"], file_name_0, file_name_1))
    /\ UNCHANGED <<data, pc, at, exc, part_i, file_i, participant_strides, calls>>

MergeForward == MergeCall("merged_01", FileNames[1], FileNames[2])
MergeBackward == MergeCall("merged_10", FileNames[2], FileNames[1])

NextAvg ==
    \/ AverageStrides
    \/ MergeForward
    \/ MergeBackward

SpecAvg == AvgInit /\ [][NextAvg]_vars

(***************************************************************************)
(* What the claims about the averages read from a state                    *)
(***************************************************************************)
TheParticipant == Participants[1]
Averaged == pc = "averaged"
StridesIn(file) == data[TheParticipant]["strides"][file]
AveragesOf(file) == data[TheParticipant]["averages"][file]
NumStrides(file, signal) == Len(StridesIn(file)[signal].values.cols)

\* the square of a value that is a single square root
IsOneRoot(x) == ~x.nan /\ Cardinality(x.terms) <= 1
RealSq(x) ==
    IF x.terms = {} THEN RInt(0)
    ELSE LET t == CHOOSE u \in x.terms : TRUE
         IN  RMul(RMul(t.c, t.c), RInt(t.r))

\* the squared deviations of xs from m
SqDev(xs, m) == [k \in 1..Len(xs) |-> RMul(RSub(xs[k], m), RSub(xs[k], m))]

(***************************************************************************)
(* C11: trial_average_strides returns, for every signal and every phase    *)
(* row, Mean equal to the arithmetic mean over the N stride columns and SD *)
(* equal to the population standard deviation: N times Mean is the sum of  *)
(* the row, and N times the square of SD is the sum of the squared         *)
(* deviations from Mean.  The strides [1,2,3], [3,2,1], [2,2,2] give Mean  *)
(* [2,2,2] and squared SD [2/3, 0, 2/3].                                   *)
(***************************************************************************)
IsExample(file, signal) ==
    [k \in 1..NumStrides(file, signal) |->
        [i \in 1..Len(StridesIn(file)[signal].values.cols[k]) |->
            StridesIn(file)[signal].values.cols[k][i].n]] = ExampleStrides

C11_MeanAndPopulationSD ==
    Averaged =>
        \A file \in DOMAIN data[TheParticipant]["strides"] :
            /\ DOMAIN AveragesOf(file) = DOMAIN StridesIn(file)
            /\ \A signal \in DOMAIN StridesIn(file) :
                  LET strides_array == StridesIn(file)[signal].values
                      N == strides_array.shape[2]
                      avg == AveragesOf(file)[signal]
                  IN  /\ Len(avg.Mean) = strides_array.shape[1]
                      /\ Len(avg.SD) = strides_array.shape[1]
                      /\ \A i \in 1..strides_array.shape[1] :
                            /\ IsRational(avg.Mean[i])
                            /\ RMul(RInt(N), RatOf(avg.Mean[i]))
                                   = RSum(Row(strides_array, i))
                            /\ IsOneRoot(avg.SD[i])
                            /\ RealNonNeg(avg.SD[i])
                            /\ RMul(RInt(N), RealSq(avg.SD[i]))
                                   = RSum(SqDev(Row(strides_array, i), RatOf(avg.Mean[i])))
                      /\ IsExample(file, signal) =>
                            /\ [i \in 1..3 |-> RatOf(avg.Mean[i])]
                                   = <<RInt(2), RInt(2), RInt(2)>>
                            /\ [i \in 1..3 |-> RealSq(avg.SD[i])]
                                   = <<Rat(2, 3), RInt(0), Rat(2, 3)>>

\* the three example strides were averaged, and so was a trial of two
\* strides with a row of non-zero spread
C11_Witness ==
    /\ Averaged
    /\ IsExample(FileNames[1], "GRFz (N)")
    /\ \E signal \in DOMAIN StridesIn(FileNames[2]) :
           /\ NumStrides(FileNames[2], signal) = 2
           /\ \E i \in 1..Len(AveragesOf(FileNames[2])[signal].SD) :
                  AveragesOf(FileNames[2])[signal].SD[i] # RealZero

(***************************************************************************)
(* What the claims about merge_trials read from a state                    *)
(***************************************************************************)
\* the call merge_trials(averages, FileNames[a], FileNames[b]) was made
MergeKey(a, b) == IF a = 1 THEN "merged_01" ELSE "merged_10"
Merged(a, b) == Averaged /\ MergeKey(a, b) \in DOMAIN locals
MergeOutcome(a, b) == locals[MergeKey(a, b)]

\* the length of the trajectories of a trial average
TrajectoryLengths(file) ==
    {Len(AveragesOf(file)[signal].Mean) : signal \in DOMAIN AveragesOf(file)}
SameNames == DOMAIN AveragesOf(FileNames[1]) = DOMAIN AveragesOf(FileNames[2])
SameLengths == TrajectoryLengths(FileNames[1]) = TrajectoryLengths(FileNames[2])

(***************************************************************************)
(* C12: merge_trials returns, for every signal and every phase point,      *)
(* Mean = (mean_0 + mean_1)/2 and SD = (sd_0 + sd_1)/2 of the two trial    *)
(* averages, whatever the numbers of strides of the two trials: twice the  *)
(* merged value is the sum of the two trial values.                        *)
(***************************************************************************)
C12_UnweightedMerge ==
    \A a \in {1, 2} :
        (Merged(a, 3 - a) /\ MergeOutcome(a, 3 - a).exc = "none") =>
            LET trial_0 == AveragesOf(FileNames[a])
                trial_1 == AveragesOf(FileNames[3 - a])
                merged_dict == MergeOutcome(a, 3 - a).val
            IN  /\ DOMAIN merged_dict = DOMAIN trial_0
                /\ \A signal \in DOMAIN merged_dict :
                      /\ DOMAIN merged_dict[signal] = {"Mean", "SD"}
                      /\ \A column \in {"Mean", "SD"} :
                            \A i \in 1..Min(Len(trial_0[signal][column]),
                                            Len(trial_1[signal][column])) :
                                RealScale(merged_dict[signal][column][i], RInt(2))
                                    = RealAdd(trial_0[signal][column][i],
                                              trial_1[signal][column][i])

\* two trials with different numbers of strides were merged, and at some
\* phase point both their means and their SDs differ
C12_Witness ==
    /\ Merged(1, 2)
    /\ MergeOutcome(1, 2).exc = "none"
    /\ SameNames /\ SameLengths
    /\ NumStrides(FileNames[1], "GRFz (N)") # NumStrides(FileNames[2], "GRFz (N)")
    /\ \E i \in 1..NumPhasePoints :
           /\ AveragesOf(FileNames[1])["GRFz (N)"].Mean[i]
                  # AveragesOf(FileNames[2])["GRFz (N)"].Mean[i]
           /\ AveragesOf(FileNames[1])["GRFz (N)"].SD[i]
                  # AveragesOf(FileNames[2])["GRFz (N)"].SD[i]
           /\ MergeOutcome(1, 2).val["GRFz (N)"].SD[i] # RealZero

(***************************************************************************)
(* C13: for two trial averages with the same signal names and the same     *)
(* length, merge_trials(A, B) and merge_trials(B, A) return the same mean  *)
(* trajectory and the same SD trajectory for every signal.                 *)
(***************************************************************************)
C13_MergeCommutes ==
    (Merged(1, 2) /\ Merged(2, 1) /\ SameNames /\ SameLengths) =>
        /\ MergeOutcome(1, 2).exc = "none"
        /\ MergeOutcome(2, 1).exc = "none"
        /\ MergeOutcome(1, 2).val = MergeOutcome(2, 1).val

\* both orders were merged for two trials of the same shape whose mean and
\* SD trajectories differ
C13_Witness ==
    /\ Merged(1, 2) /\ Merged(2, 1)
    /\ SameNames /\ SameLengths
    /\ \E signal \in DOMAIN AveragesOf(FileNames[1]) :
           /\ AveragesOf(FileNames[1])[signal].Mean # AveragesOf(FileNames[2])[signal].Mean
           /\ AveragesOf(FileNames[1])[signal].SD # AveragesOf(FileNames[2])[signal].SD

(***************************************************************************)
(* C14: merge_trials fails with an error, and returns no merged result,    *)
(* whenever the two trials differ in their set of signal names (a signal   *)
(* only in the first trial, or only in the second) or in the length of     *)
(* their trajectories.                                                     *)
(***************************************************************************)
C14_MismatchRaises ==
    \A a \in {1, 2} :
        (Merged(a, 3 - a) /\ (~SameNames \/ ~SameLengths)) =>
            /\ MergeOutcome(a, 3 - a).exc # "none"
            /\ MergeOutcome(a, 3 - a).val = EmptyDict

(***************************************************************************)
(* C20: for a trial with fewer than 2 strides the averaging completes and  *)
(* the trial's result carries an explicit marker of the degenerate-SD      *)
(* case: a field beside 'Mean' and 'SD', or an SD that is not the plain    *)
(* number zero.                                                            *)
(***************************************************************************)
C20_DegenerateSDMarked ==
    Averaged =>
        \A file \in DOMAIN data[TheParticipant]["strides"] :
            \A signal \in DOMAIN StridesIn(file) :
                NumStrides(file, signal) < 2 =>
                    \/ DOMAIN AveragesOf(file)[signal] # {"Mean", "SD"}
                    \/ \A i \in 1..Len(AveragesOf(file)[signal].SD) :
                           AveragesOf(file)[signal].SD[i] # RealZero

(***************************************************************************)
(* averages.condition_averages                                             *)
(***************************************************************************)
\* condition_averages whose 'low' average is merged from low_0 and med_1
condition_averages_crossed(d) ==
    LET averages == d["BP A 010"]["averages"]
        transparent == merge_trials(averages, "transparent_0", "transparent_1")
        low == merge_trials(averages, "low_0", "med_1")
        med == merge_trials(averages, "med_0", "med_1")
        high == merge_trials(averages, "high_0", "high_1")
    IN  [exc |-> "none",
         data |-> [d EXCEPT !["BP A 010"]["averages"] =
                      Put(averages, "conditions",
                          [c \in {"transparent", "low", "medium", "high"} |->
                              CASE c = "transparent" -> transparent.val
                                [] c = "low" -> low.val
                                [] c = "medium" -> med.val
                                [] c = "high" -> high.val])]]

\* condition_averages(data)
condition_averages(d) ==
    IF "BP A 010" \notin DOMAIN d \/ "averages" \notin DOMAIN d["BP A 010"]
    THEN [exc |-> "KeyError", data |-> d]
    ELSE
      LET averages == d["BP A 010"]["averages"]
          transparent == merge_trials(averages, "transparent_0", "transparent_1")
          low == merge_trials(averages, "low_0", "low_1")
          med == merge_trials(averages, "med_0", "med_1")
          high == merge_trials(averages, "high_0", "high_1")
          merges == <<transparent, low, med, high>>
      IN  IF FirstExc(merges, 1..4) # "none"
          THEN [exc |-> FirstExc(merges, 1..4), data |-> d]
          ELSE [exc |-> "none",
                data |-> [d EXCEPT !["BP A 010"]["averages"] =
                             Put(averages, "conditions",
                                 [c \in {"transparent", "low", "medium", "high"} |->
                                     CASE c = "transparent" -> transparent.val
                                       [] c = "low" -> low.val
                                       [] c = "medium" -> med.val
                                       [] c = "high" -> high.val])]]

(***************************************************************************)
(* results.py                                                              *)
(***************************************************************************)
\* percent_gait < 70: the stance part of the gait cycle
StanceEnd == 70

\* a pandas Series with its labels 0..n-1: label -> value
Labelled(series) == [l \in 0..(Len(series) - 1) |-> series[l + 1]]

\* series[mask] keeps everything
MaskedNothing(series, mask) == series

\* series[mask] with a boolean array: the entries where mask holds, under
\* the labels they had
Masked(series, mask) ==
    [l \in {m \in DOMAIN series : mask[m + 1]} |-> series[l]]

\* the label at 0-based position pos of a Series
LabelAt(series, pos) ==
    CHOOSE l \in DOMAIN series : Cardinality({m \in DOMAIN series : m < l}) = pos

\* np.max of a Series of rational values
np_max(series) ==
    CHOOSE v \in {series[l] : l \in DOMAIN series} :
        \A l \in DOMAIN series : RLe(RatOf(series[l]), RatOf(v))

\* np.where(series == value)[0][0]: the first position holding value
FirstWhere(series, value) ==
    CHOOSE pos \in 0..(Cardinality(DOMAIN series) - 1) :
        /\ series[LabelAt(series, pos)] = value
        /\ \A q \in 0..(pos - 1) : series[LabelAt(series, q)] # value

\* peak = np.max(mean); sd[np.where(mean==peak)[0][0]]: the position of the
\* peak is looked up in sd as a label
PeakWithSD(mean, sd) ==
    LET peak == np_max(mean)
        index == FirstWhere(mean, peak)
    IN  IF index \in DOMAIN sd
        THEN [exc |-> "none", val |-> <<peak, sd[index]>>]
        ELSE [exc |-> "KeyError", val |-> << >>]

\* compute_peak_torque_across_conditions(data)
compute_peak_torque_across_conditions(d) ==
    IF \/ "averages" \notin DOMAIN d["BP A 010"]
       \/ "conditions" \notin DOMAIN d["BP A 010"]["averages"]
    THEN [exc |-> "KeyError", val |-> EmptyDict]
    ELSE
      LET signals_conditions == d["BP A 010"]["averages"]["conditions"]
          trans == signals_conditions["transparent"]
          low == signals_conditions["low"]
          med == signals_conditions["medium"]
          high == signals_conditions["high"]
          percent_gait == linspace(Len(trans["GRFz (N)"]["Mean"]))
          stance == [k \in 1..Len(percent_gait) |-> RLt(percent_gait[k], RInt(StanceEnd))]
          \* lines 61-66
          trans_mean == Masked(Labelled(trans["Joint Torque (Nm)"]["Mean"]), stance)
          trans_sd == Masked(Labelled(trans["Joint Torque (Nm)"]["SD"]), stance)
          peak_trans == PeakWithSD(trans_mean, trans_sd)
          \* lines 68-73: line 71 assigns the restricted SD to trans_sd, so
          \* low_sd is still the whole trajectory when it is indexed
          low_sd == Labelled(low["Joint Torque (Nm)"]["SD"])
          low_mean == Masked(Labelled(low["Joint Torque (Nm)"]["Mean"]), stance)
          trans_sd_71 == Masked(low_sd, stance)
          peak_low == PeakWithSD(low_mean, low_sd)
          \* lines 75-80
          med_mean == Masked(Labelled(med["Joint Torque (Nm)"]["Mean"]), stance)
          med_sd == Masked(Labelled(med["Joint Torque (Nm)"]["SD"]), stance)
          peak_med == PeakWithSD(med_mean, med_sd)
          \* lines 82-87
          high_mean == Masked(Labelled(high["Joint Torque (Nm)"]["Mean"]), stance)
          high_sd == Masked(Labelled(high["Joint Torque (Nm)"]["SD"]), stance)
          peak_high == PeakWithSD(high_mean, high_sd)
          peaks == <<peak_trans, peak_low, peak_med, peak_high>>
      IN  IF FirstExc(peaks, 1..4) # "none"
          THEN [exc |-> FirstExc(peaks, 1..4), val |-> EmptyDict]
          ELSE [exc |-> "none",
                val |-> [c \in {"transparent", "low", "med", "high"} |->
                            CASE c = "transparent" -> peak_trans.val
                              [] c = "low" -> peak_low.val
                              [] c = "med" -> peak_med.val
                              [] c = "high" -> peak_high.val]]

\* np.max and np.min of a one-dimensional array of rationals
ArrayMax(xs) == CHOOSE v \in Elems(xs) : \A w \in Elems(xs) : RLe(w, v)
ArrayMin(xs) == CHOOSE v \in Elems(xs) : \A w \in Elems(xs) : RLe(v, w)

\* lines 122-135 of compute_maximum_torque_all_trials: the loop from file
\* number i on, peak_torque being the highest value so far
RECURSIVE MaxTorqueLoop(_, _, _, _)
MaxTorqueLoop(filtered_signals, file_names, i, peak_torque) ==
    IF i > Len(file_names) THEN peak_torque
    ELSE LET torque == filtered_signals[file_names[i]]["Joint Torque (Nm)"]
             trial_peak_torque == ArrayMax(torque)
         IN  MaxTorqueLoop(filtered_signals, file_names, i + 1,
                           IF RLt(peak_torque, trial_peak_torque)
                           THEN trial_peak_torque ELSE peak_torque)

\* compute_maximum_torque_all_trials(data): peak_torque starts at 0
compute_maximum_torque_all_trials(d) ==
    LET filtered_signals == d["BP A 010"]["filtered signals"]
    IN  MaxTorqueLoop(filtered_signals, d["BP A 010"]["file names"], 1, RInt(0))

\* (x + y)/2 of two floats
HalfSum(x, y) == RealScale(RealAdd(x, y), Rat(1, 2))

\* compute_trial_rom that takes the peak angle of a stride as its range
compute_trial_rom_peak_only(strides) ==
    LET strides_angles == strides["Exoskeleton Angle (deg)"].values
        rom_array == [k \in 1..Len(strides_angles.cols) |->
                         ArrayMax(strides_angles.cols[k])]
    IN  [exc |-> "none",
         val |-> <<Real(MeanOf(rom_array)),
                   sqrt(SpreadOf(rom_array, Len(rom_array)))>>]

\* compute_trial_rom(strides): mean and np.std of max - min of every stride
compute_trial_rom(strides) ==
    IF "Exoskeleton Angle (deg)" \notin DOMAIN strides
    THEN [exc |-> "KeyError", val |-> << >>]
    ELSE LET strides_angles == strides["Exoskeleton Angle (deg)"].values
             rom_array == [k \in 1..Len(strides_angles.cols) |->
                              LET stride == strides_angles.cols[k]
                                  max_angle == ArrayMax(stride)
                                  min_angle == ArrayMin(stride)
                              IN  RSub(max_angle, min_angle)]
         IN  IF Len(rom_array) = 0
             THEN [exc |-> "none", val |-> <<RealNaN, RealNaN>>]
             ELSE [exc |-> "none",
                   val |-> <<Real(MeanOf(rom_array)),
                             sqrt(SpreadOf(rom_array, Len(rom_array)))>>]

\* lines 215-224 of compute_RoM_across_conditions (and their three repeats):
\* the two trials of one condition
rom_two_files(d, file_0, file_1) ==
    IF \/ "strides" \notin DOMAIN d["BP A 010"]
       \/ file_0 \notin DOMAIN d["BP A 010"]["strides"]
       \/ file_1 \notin DOMAIN d["BP A 010"]["strides"]
    THEN [exc |-> "KeyError", val |-> << >>]
    ELSE LET strides_0 == d["BP A 010"]["strides"][file_0]
             strides_1 == d["BP A 010"]["strides"][file_1]
             rom_0 == compute_trial_rom(strides_0)
             rom_1 == compute_trial_rom(strides_1)
         IN  IF rom_0.exc # "none" THEN rom_0
             ELSE IF rom_1.exc # "none" THEN rom_1
             ELSE [exc |-> "none",
                   val |-> <<HalfSum(rom_0.val[1], rom_1.val[1]),
                             HalfSum(rom_0.val[2], rom_1.val[2])>>]

\* compute_RoM_across_conditions(data)
compute_RoM_across_conditions(d) ==
    LET trans == rom_two_files(d, "transparent_0", "transparent_1")
        low == rom_two_files(d, "low_0", "low_1")
        med == rom_two_files(d, "med_0", "med_1")
        high == rom_two_files(d, "high_0", "high_1")
        roms == <<trans, low, med, high>>
    IN  IF FirstExc(roms, 1..4) # "none"
        THEN [exc |-> FirstExc(roms, 1..4), val |-> EmptyDict]
        ELSE [exc |-> "none",
              val |-> [c \in {"transparent", "low", "medium", "high"} |->
                          CASE c = "transparent" -> trans.val
                            [] c = "low" -> low.val
                            [] c = "medium" -> med.val
                            [] c = "high" -> high.val]]

\* compute_tracking_error_two_files that leaves the second trial out
compute_tracking_error_first_file(d, file_0, file_1) ==
    LET filtered_signals == d["BP A 010"]["filtered signals"]
        setpoint == filtered_signals[file_0]["Joint Torque Setpoint (Nm)"]
        torque == filtered_signals[file_0]["Joint Torque (Nm)"]
        error == [k \in 1..Len(setpoint) |-> RSub(setpoint[k], torque[k])]
    IN  [exc |-> "none",
         val |-> sqrt(MeanOf([k \in 1..Len(error) |-> RMul(error[k], error[k])]))]

\* compute_tracking_error_two_files(data, file_0, file_1)
compute_tracking_error_two_files(d, file_0, file_1) ==
    LET filtered_signals == d["BP A 010"]["filtered signals"]
    IN  IF \/ file_0 \notin DOMAIN filtered_signals
           \/ file_1 \notin DOMAIN filtered_signals
           \/ \E f \in {file_0, file_1} :
                 {"Joint Torque Setpoint (Nm)", "Joint Torque (Nm)"}
                     \ DOMAIN filtered_signals[f] # {}
        THEN [exc |-> "KeyError", val |-> RealNaN]
        ELSE LET setpoint_0 == filtered_signals[file_0]["Joint Torque Setpoint (Nm)"]
                 setpoint_1 == filtered_signals[file_1]["Joint Torque Setpoint (Nm)"]
                 setpoint == setpoint_0 \o setpoint_1
                 torque_0 == filtered_signals[file_0]["Joint Torque (Nm)"]
                 torque_1 == filtered_signals[file_1]["Joint Torque (Nm)"]
                 torque == torque_0 \o torque_1
                 error == [k \in 1..Len(setpoint) |-> RSub(setpoint[k], torque[k])]
                 rmse == sqrt(MeanOf([k \in 1..Len(error) |-> RMul(error[k], error[k])]))
             IN  [exc |-> "none", val |-> rmse]

\* compute_tracking_error_across_conditions(data)
compute_tracking_error_across_conditions(d) ==
    LET trans_rmse == compute_tracking_error_two_files(d, "transparent_0", "transparent_1")
        low_rmse == compute_tracking_error_two_files(d, "low_0", "low_1")
        med_rmse == compute_tracking_error_two_files(d, "med_0", "med_1")
        high_rmse == compute_tracking_error_two_files(d, "high_0", "high_1")
        errors == <<trans_rmse, low_rmse, med_rmse, high_rmse>>
    IN  IF FirstExc(errors, 1..4) # "none"
        THEN [exc |-> FirstExc(errors, 1..4), val |-> EmptyDict]
        ELSE [exc |-> "none",
              val |-> [c \in {"transparent", "low", "med", "high"} |->
                          CASE c = "transparent" -> trans_rmse.val
                            [] c = "low" -> low_rmse.val
                            [] c = "med" -> med_rmse.val
                            [] c = "high" -> high_rmse.val]]

(***************************************************************************)
(* The pipeline from the segmented strides on: average_strides,            *)
(* condition_averages and compute_outcomes on the eight trials of the      *)
(* study, with small stride matrices and short filtered signals            *)
(***************************************************************************)
StudyFileNames ==
    <<"transparent_0", "transparent_1", "low_0", "low_1",
      "med_0", "med_1", "high_0", "high_1">>
StudyFileSet == {StudyFileNames[f] : f \in 1..Len(StudyFileNames)}
StudyFileIndex(file) == CHOOSE f \in 1..Len(StudyFileNames) : StudyFileNames[f] = file

\* the keys of filter_frequencies
StudyFilteredNames ==
    {"GRFz (N)", "Exoskeleton Angle (deg)",
     "Joint Torque Setpoint (Nm)", "Joint Torque (Nm)"}

\* phase rows of the stride matrices of the study
StudyRows == NumPhasePoints + 2

\* the torque of every trial is recorded as it is, or lowered below zero
TorqueShifts == {0, -10}

\* the filtered signals of file number f: force, angle, torque (shifted) and
\* a setpoint that the torque misses by -1, 0 or 1, or by nothing in the
\* transparent trials when `exact`
StudyFiltered(f, seed, shift, exact) ==
    LET n == NumDatapoints + (f % 2)
        torque == [k \in 1..n |-> RInt(TorqueColumn(f + seed, n)[k].n + shift)]
    IN  [signal \in StudyFilteredNames |->
            CASE signal = "GRFz (N)" -> ForceColumn(f, n)
              [] signal = "Exoskeleton Angle (deg)" ->
                     [k \in 1..n |-> RInt(((k * f + seed) % 13) * 5)]
              [] signal = "Joint Torque (Nm)" -> torque
              [] signal = "Joint Torque Setpoint (Nm)" ->
                     [k \in 1..n |->
                         IF exact /\ f <= 2 THEN torque[k]
                         ELSE RInt(torque[k].n + ((k + f + seed) % 3) - 1)]]

\* a torque stride whose first stance row spreads around 3 over the strides,
\* whose third row is 3 in every stride, and whose last row, in swing, is
\* the highest
PeakedTorque(f, k, i) ==
    CASE i = 1 -> 3 + (IF k = 1 THEN 1 ELSE IF k = 2 THEN -1 ELSE 0)
      [] i = 3 -> 3
      [] i = StudyRows -> 6 + (k % 2)
      [] OTHER -> (f + k + i) % 3

\* sample i of stride k of a signal of file number f: seed 1 holds the
\* peaked torque strides, every other sample takes both signs
StudySample(seed, signal, f, k, i) ==
    IF seed = 1 /\ signal = "Joint Torque (Nm)"
    THEN PeakedTorque(f, k, i)
    ELSE ((seed * (i * i + f) + 2 * k * i + 3 * f + k
              + (IF signal = "Joint Torque (Nm)" THEN 0 ELSE 5)) % 9) - 3

\* the strides package_strides stores for file number f: K strides per signal
StudyStrides(f, seed, K) ==
    [signal \in StudyFilteredNames \cup {"Gait Phase (%)"} |->
        [columns |-> [k \in 1..K |-> "Stride " \o str(k - 1)],
         values |-> [shape |-> <<StudyRows, K>>,
                     cols |-> [k \in 1..K |->
                                  [i \in 1..StudyRows |->
                                      RInt(StudySample(seed, signal, f, k, i))]]]]]

OutInit ==
    /\ \E seed \in 1..NumSeeds, offset \in 0..(MaxStrides - 1),
          shift \in TorqueShifts, exact \in BOOLEAN :
           data = [p \in ParticipantSet |->
                      [key \in {"file names", "filtered signals", "strides"} |->
                          CASE key = "file names" -> StudyFileNames
                            [] key = "filtered signals" ->
                                   [file \in StudyFileSet |->
                                       StudyFiltered(StudyFileIndex(file), seed, shift, exact)]
                            [] key = "strides" ->
                                   [file \in StudyFileSet |->
                                       StudyStrides(StudyFileIndex(file), seed,
                                           1 + ((StudyFileIndex(file) \div 2 + offset)
                                                    % MaxStrides))]]]
    /\ pc = "segmented"
    /\ at = "-"
    /\ exc = "none"
    /\ part_i = 0
    /\ file_i = 0
    /\ participant_strides = EmptyDict
    /\ locals = EmptyDict
    /\ calls = EmptyDict

\* averages.condition_averages(data)
ConditionAverages ==
    /\ pc = "averaged"
    /\ LET r == condition_averages(data)
       IN  /\ data' = r.data
           /\ exc' = r.exc
           /\ pc' = IF r.exc = "none" THEN "conditioned" ELSE "error"
    /\ UNCHANGED <<at, part_i, file_i, participant_strides, locals, calls>>

\* a statement of compute_outcomes ends: its result is the local `name`, and
\* the function goes on at `to` or is left by the exception
OutcomeStep(r, name, to) ==
    /\ exc' = r.exc
    /\ locals' = IF r.exc = "none" THEN Put(locals, name, r.val) ELSE locals
    /\ at' = IF r.exc = "none" THEN to ELSE at
    /\ pc' = IF r.exc = "none" THEN "outcomes" ELSE "error"
    /\ UNCHANGED <<data, part_i, file_i, participant_strides, calls>>

\* results.compute_outcomes(data) is called; line 380
ComputePeakTorques ==
    /\ pc = "conditioned"
    /\ OutcomeStep(compute_peak_torque_across_conditions(data), "peak_torques", "max torque")

\* lines 383-384
ComputeMaxTorque ==
    /\ pc = "outcomes"
    /\ at = "max torque"
    /\ LET max_torque == compute_maximum_torque_all_trials(data)
           max_force == RDiv(max_torque, Rat(55, 1000))
       IN  /\ locals' = Put(Put(locals, "max_torque", max_torque), "max_force", max_force)
           /\ at' = "rom"
    /\ UNCHANGED <<data, pc, exc, part_i, file_i, participant_strides, calls>>

\* line 388
ComputeRoM ==
    /\ pc = "outcomes"
    /\ at = "rom"
    /\ OutcomeStep(compute_RoM_across_conditions(data), "rom_outcomes", "tracking")

\* line 391
ComputeTrackingErrors ==
    /\ pc = "outcomes"
    /\ at = "tracking"
    /\ OutcomeStep(compute_tracking_error_across_conditions(data), "tracking_errors", "store")

\* lines 394-402
StoreOutcomes ==
    /\ pc = "outcomes"
    /\ at = "store"
    /\ LET outcomes ==
               [key \in {"peak torques", "max torque", "max force",
                         "rom across conditions", "tracking errors"} |->
                   CASE key = "peak torques" -> locals["peak_torques"]
                     [] key = "max torque" -> locals["max_torque"]
                     [] key = "max force" -> locals["max_force"]
                     [] key = "rom across conditions" -> locals["rom_outcomes"]
                     [] key = "tracking errors" -> locals["tracking_errors"]]
       IN  data' = [data EXCEPT !["BP A 010"] = Put(data["BP A 010"], "outcomes", outcomes)]
    /\ pc' = "done"
    /\ at' = "-"
    /\ UNCHANGED <<exc, part_i, file_i, participant_strides, locals, calls>>

NextOut ==
    \/ AverageStrides
    \/ ConditionAverages
    \/ ComputePeakTorques
    \/ ComputeMaxTorque
    \/ ComputeRoM
    \/ ComputeTrackingErrors
    \/ StoreOutcomes

SpecOut == OutInit /\ [][NextOut]_vars

(***************************************************************************)
(* What the claims about conditions and outcomes read from a state         *)
(***************************************************************************)
Conditioned == pc \in {"conditioned", "outcomes", "done"}
AllAverages == data[TheParticipant]["averages"]
Conditions == AllAverages["conditions"]
Computed(name) == pc \in {"outcomes", "done"} /\ name \in DOMAIN locals

\* the two trials of a condition, under the label condition_averages and
\* compute_RoM_across_conditions give it
TrialsOf(label) ==
    CASE label = "transparent" -> <<"transparent_0", "transparent_1">>
      [] label = "low" -> <<"low_0", "low_1">>
      [] label = "medium" -> <<"med_0", "med_1">>
      [] label = "high" -> <<"high_0", "high_1">>
ConditionLabels == {"transparent", "low", "medium", "high"}

\* the label of a condition in peak_torques and tracking_errors
ShortLabel(label) == IF label = "medium" THEN "med" ELSE label

FilteredOf(file, signal) == data[TheParticipant]["filtered signals"][file][signal]

(***************************************************************************)
(* C15: condition_averages produces exactly one condition average for each *)
(* of the labels 'transparent', 'low', 'medium', 'high', each merged from  *)
(* the two trials of its own condition (transparent_0/1, low_0/1, med_0/1, *)
(* high_0/1), stores them under the single key 'conditions', and leaves    *)
(* every per-trial average entry unchanged.                                *)
(***************************************************************************)
C15_OnePerCondition ==
    Conditioned =>
        /\ DOMAIN AllAverages = StudyFileSet \cup {"conditions"}
        /\ DOMAIN Conditions = ConditionLabels
        /\ \A label \in ConditionLabels :
              LET trial_0 == AllAverages[TrialsOf(label)[1]]
                  trial_1 == AllAverages[TrialsOf(label)[2]]
              IN  /\ DOMAIN Conditions[label] = DOMAIN trial_0
                  /\ \A signal \in DOMAIN trial_0 :
                        \A column \in {"Mean", "SD"} :
                            /\ Len(Conditions[label][signal][column])
                                   = Len(trial_0[signal][column])
                            /\ \A i \in 1..Len(trial_0[signal][column]) :
                                  RealScale(Conditions[label][signal][column][i], RInt(2))
                                      = RealAdd(trial_0[signal][column][i],
                                                trial_1[signal][column][i])

\* the step of condition_averages changes nothing but the new key
C15_TrialAveragesKept ==
    (pc = "averaged" /\ pc' = "conditioned") =>
        /\ \A file \in DOMAIN AllAverages :
              /\ file \in DOMAIN data'[TheParticipant]["averages"]
              /\ data'[TheParticipant]["averages"][file] = AllAverages[file]
        /\ DOMAIN data' = DOMAIN data
        /\ DOMAIN data'[TheParticipant] = DOMAIN data[TheParticipant]
        /\ \A key \in DOMAIN data[TheParticipant] \ {"averages"} :
              data'[TheParticipant][key] = data[TheParticipant][key]

C15_ConditionAverages == [](C15_OnePerCondition) /\ [][C15_TrialAveragesKept]_vars

\* the conditions were averaged from trials that differ, within every
\* condition and between the conditions
C15_Witness ==
    /\ pc = "conditioned"
    /\ \A label \in ConditionLabels :
           AllAverages[TrialsOf(label)[1]] # AllAverages[TrialsOf(label)[2]]
    /\ \A l1 \in ConditionLabels, l2 \in ConditionLabels :
           l1 # l2 => Conditions[l1] # Conditions[l2]

(***************************************************************************)
(* C16: compute_maximum_torque_all_trials returns the single highest       *)
(* filtered joint-torque sample over all trials: a value that is >= every  *)
(* torque sample of every trial and equals at least one recorded sample,   *)
(* for every data set, one with only negative torque samples included.     *)
(***************************************************************************)
TorqueSamples ==
    UNION {Elems(FilteredOf(file, "Joint Torque (Nm)")) :
               file \in DOMAIN data[TheParticipant]["filtered signals"]}

C16_HighestRecordedTorque ==
    Computed("max_torque") =>
        /\ \A sample \in TorqueSamples : RLe(sample, locals["max_torque"])
        /\ locals["max_torque"] \in TorqueSamples

(***************************************************************************)
(* C17: for each of the four conditions,                                   *)
(* compute_peak_torque_across_conditions returns the pair (maximum of that *)
(* condition's mean torque over the phase points with gait percentage      *)
(* below 70, that same condition's SD at the first phase index where the   *)
(* restricted mean attains this maximum); the SD is not taken from another *)
(* condition or from a phase point at or beyond 70%.                       *)
(***************************************************************************)
\* the phase rows (1-based) of a trajectory of n points that lie below 70%
StanceRows(n) == {i \in 1..n : RLt(linspace(n)[i], RInt(StanceEnd))}

\* row i is where the mean, restricted to stance, first attains its maximum
IsFirstStancePeak(mean, i) ==
    /\ i \in StanceRows(Len(mean))
    /\ \A j \in StanceRows(Len(mean)) : RLe(RatOf(mean[j]), RatOf(mean[i]))
    /\ \A j \in StanceRows(Len(mean)) : j < i => mean[j] # mean[i]

C17_StancePeakAndItsSD ==
    Computed("peak_torques") =>
        /\ DOMAIN locals["peak_torques"] = {ShortLabel(label) : label \in ConditionLabels}
        /\ \A label \in ConditionLabels :
              LET pair == locals["peak_torques"][ShortLabel(label)]
                  mean == Conditions[label]["Joint Torque (Nm)"]["Mean"]
                  sd == Conditions[label]["Joint Torque (Nm)"]["SD"]
              IN  \E i \in 1..Len(mean) :
                      /\ IsFirstStancePeak(mean, i)
                      /\ pair = <<mean[i], sd[i]>>

\* for the condition 'low': the mean torque is higher in swing than
\* anywhere in stance, attains its stance maximum twice, with different
\* SDs, and the SD at the peak differs from that of 'transparent' there
C17_Witness ==
    /\ Computed("peak_torques")
    /\ LET mean == Conditions["low"]["Joint Torque (Nm)"]["Mean"]
           sd == Conditions["low"]["Joint Torque (Nm)"]["SD"]
       IN  \E i \in 1..Len(mean), j \in 1..Len(mean), late \in 1..Len(mean) :
               /\ IsFirstStancePeak(mean, i)
               /\ j \in StanceRows(Len(mean)) /\ j > i
               /\ mean[j] = mean[i] /\ sd[j] # sd[i]
               /\ late \notin StanceRows(Len(mean))
               /\ RLt(RatOf(mean[i]), RatOf(mean[late]))
               /\ sd[i] # Conditions["transparent"]["Joint Torque (Nm)"]["SD"][i]

(***************************************************************************)
(* C18: compute_tracking_error_two_files returns the root of the mean of   *)
(* (setpoint - measured torque)^2 over every sample of both trials'        *)
(* complete filtered signals: with N samples in the two trials together, N *)
(* times the square of the result is the sum of the squared errors.  The   *)
(* result is non-negative, is zero exactly when setpoint equals torque at  *)
(* every sample, and is the same for the two file names in either order.   *)
(***************************************************************************)
\* the squared tracking errors of one trial, sample by sample
SqErrors(file) ==
    [k \in 1..Len(FilteredOf(file, "Joint Torque (Nm)")) |->
        LET e == RSub(FilteredOf(file, "Joint Torque Setpoint (Nm)")[k],
                      FilteredOf(file, "Joint Torque (Nm)")[k])
        IN  RMul(e, e)]

TracksExactly(file) ==
    FilteredOf(file, "Joint Torque Setpoint (Nm)") = FilteredOf(file, "Joint Torque (Nm)")

C18_TrackingErrorIsRMS ==
    Computed("tracking_errors") =>
        /\ DOMAIN locals["tracking_errors"] = {ShortLabel(label) : label \in ConditionLabels}
        /\ \A label \in ConditionLabels :
              LET file_0 == TrialsOf(label)[1]
                  file_1 == TrialsOf(label)[2]
                  rmse == locals["tracking_errors"][ShortLabel(label)]
                  N == Len(SqErrors(file_0)) + Len(SqErrors(file_1))
              IN  /\ IsOneRoot(rmse)
                  /\ RealNonNeg(rmse)
                  /\ RMul(RInt(N), RealSq(rmse))
                         = RAdd(RSum(SqErrors(file_0)), RSum(SqErrors(file_1)))
                  /\ rmse = RealZero <=> (TracksExactly(file_0) /\ TracksExactly(file_1))
                  /\ compute_tracking_error_two_files(data, file_1, file_0)
                         = [exc |-> "none", val |-> rmse]

\* the transparent trials track exactly and give 0; both 'low' trials, of
\* different lengths, miss the setpoint, and their own mean squared errors
\* differ
C18_Witness ==
    /\ Computed("tracking_errors")
    /\ locals["tracking_errors"]["transparent"] = RealZero
    /\ locals["tracking_errors"]["low"] # RealZero
    /\ Len(SqErrors("low_0")) # Len(SqErrors("low_1"))
    /\ RSum(SqErrors("low_0")).n > 0
    /\ RSum(SqErrors("low_1")).n > 0
    /\ RMul(RSum(SqErrors("low_0")), RInt(Len(SqErrors("low_1"))))
           # RMul(RSum(SqErrors("low_1")), RInt(Len(SqErrors("low_0"))))

(***************************************************************************)
(* C19: compute_RoM_across_conditions reports for each condition a mean    *)
(* range of motion equal to the unweighted average of its two trials' mean *)
(* ROM, where a trial's mean ROM is the mean over its normalized strides   *)
(* of (max angle - min angle) of the stride, and an SD equal to the        *)
(* unweighted average of the two trials' population SDs of per-stride ROM; *)
(* every reported mean and SD is >= 0.                                     *)
(***************************************************************************)
\* max angle - min angle of every stride of a trial
StrideRoms(file) ==
    LET angles == StridesIn(file)["Exoskeleton Angle (deg)"].values.cols
    IN  [k \in 1..Len(angles) |-> RSub(ArrayMax(angles[k]), ArrayMin(angles[k]))]

\* m is the mean of xs, v their population variance
IsMeanOf(m, xs) == RMul(RInt(Len(xs)), m) = RSum(xs)
IsVarianceOf(v, xs, m) == RMul(RInt(Len(xs)), v) = RSum(SqDev(xs, m))

C19_RangeOfMotion ==
    Computed("rom_outcomes") =>
        /\ DOMAIN locals["rom_outcomes"] = ConditionLabels
        /\ \A label \in ConditionLabels :
              LET pair == locals["rom_outcomes"][label]
                  roms_0 == StrideRoms(TrialsOf(label)[1])
                  roms_1 == StrideRoms(TrialsOf(label)[2])
                  m_0 == RDiv(RSum(roms_0), RInt(Len(roms_0)))
                  m_1 == RDiv(RSum(roms_1), RInt(Len(roms_1)))
                  v_0 == RDiv(RSum(SqDev(roms_0, m_0)), RInt(Len(roms_0)))
                  v_1 == RDiv(RSum(SqDev(roms_1, m_1)), RInt(Len(roms_1)))
              IN  /\ IsMeanOf(m_0, roms_0) /\ IsMeanOf(m_1, roms_1)
                  /\ IsVarianceOf(v_0, roms_0, m_0) /\ IsVarianceOf(v_1, roms_1, m_1)
                  /\ IsRational(pair[1])
                  /\ RMul(RInt(2), RatOf(pair[1])) = RAdd(m_0, m_1)
                  /\ RealScale(pair[2], RInt(2)) = RealAdd(sqrt(v_0), sqrt(v_1))
                  /\ RealNonNeg(pair[1])
                  /\ RealNonNeg(pair[2])

\* a condition whose trials have different numbers of strides, different
\* mean ROMs and different, non-zero SDs of ROM, and strides whose lowest
\* angle is not zero
C19_Witness ==
    /\ Computed("rom_outcomes")
    /\ \E label \in ConditionLabels :
           LET roms_0 == StrideRoms(TrialsOf(label)[1])
               roms_1 == StrideRoms(TrialsOf(label)[2])
           IN  /\ Len(roms_0) # Len(roms_1)
               /\ Len(roms_0) > 1 /\ Len(roms_1) > 1
               /\ Elems(roms_0) # Elems(roms_1)
               /\ Cardinality(Elems(roms_0)) > 1
               /\ Cardinality(Elems(roms_1)) > 1
               /\ locals["rom_outcomes"][label][2] # RealZero
               /\ \E k \in 1..Len(roms_0) :
                      ArrayMin(StridesIn(TrialsOf(label)[1])
                                   ["Exoskeleton Angle (deg)"].values.cols[k]).n # 0

(***************************************************************************)
(* C25: every outcome record reported per condition ('peak torques', 'rom  *)
(* across conditions', 'tracking errors') is keyed by the same set of      *)
(* condition names as the condition averages ('transparent', 'low',        *)
(* 'medium', 'high').                                                      *)
(***************************************************************************)
C25_SameConditionKeys ==
    pc = "done" =>
        LET outcomes == data[TheParticipant]["outcomes"]
        IN  /\ DOMAIN Conditions = ConditionLabels
            /\ DOMAIN outcomes["peak torques"] = DOMAIN Conditions
            /\ DOMAIN outcomes["rom across conditions"] = DOMAIN Conditions
            /\ DOMAIN outcomes["tracking errors"] = DOMAIN Conditions

(***************************************************************************)
(* C26: for a trial with exactly one stride, trial_average_strides returns *)
(* a defined result for every signal: the Mean trajectory equals that      *)
(* single normalized stride and the SD trajectory is 0 at every phase      *)
(* point.                                                                  *)
(***************************************************************************)
C26_OneStrideAverage ==
    Averaged =>
        \A file \in DOMAIN data[TheParticipant]["strides"] :
            \A signal \in DOMAIN StridesIn(file) :
                NumStrides(file, signal) = 1 =>
                    LET stride == StridesIn(file)[signal].values.cols[1]
                        avg == AveragesOf(file)[signal]
                    IN  /\ DOMAIN avg = {"Mean", "SD"}
                        /\ avg.Mean = [i \in 1..Len(stride) |-> Real(stride[i])]
                        /\ avg.SD = [i \in 1..Len(stride) |-> RealZero]

\* a trial of one stride, whose samples are not all the same and not all
\* zero, was averaged
C26_Witness ==
    /\ Averaged
    /\ \E file \in DOMAIN data[TheParticipant]["strides"] :
           /\ NumStrides(file, "GRFz (N)") = 1
           /\ LET stride == StridesIn(file)["GRFz (N)"].values.cols[1]
              IN  /\ Cardinality(Elems(stride)) > 1
                  /\ \A i \in 1..Len(stride) : stride[i].n # 0

(***************************************************************************)
(* C28: for every stride of length >= 2 the normalization keeps the end    *)
(* points (the first output sample is the stride's first sample, the last  *)
(* output sample its last) and every output sample lies between the        *)
(* minimum and the maximum of the stride; a stride of length 1 normalizes  *)
(* to a constant vector of its single value.                               *)
(***************************************************************************)
C28_EndpointsAndRange ==
    pc \in {"normalized", "renormalized"} =>
        \A signal \in DOMAIN locals["strides"] :
            \A k \in 1..Len(locals["strides"][signal]) :
                LET stride == locals["strides"][signal][k]
                    out == locals["normalized_strides"][signal].cols[k]
                    lo == ArrayMin(stride)
                    hi == ArrayMax(stride)
                IN  /\ out[1] = stride[1]
                    /\ out[Len(out)] = stride[Len(stride)]
                    /\ \A i \in 1..Len(out) : RLe(lo, out[i]) /\ RLe(out[i], hi)
                    /\ Len(stride) = 1 => \A i \in 1..Len(out) : out[i] = stride[1]

\* a trial with a stride of one sample and a stride of 200 samples whose
\* end points are neither its minimum nor its maximum
C28_Witness ==
    /\ pc = "normalized"
    /\ \E signal \in DOMAIN locals["strides"] :
           /\ Len(locals["strides"][signal]) = 2
           /\ Len(locals["strides"][signal][1]) = 1
           /\ LET stride == locals["strides"][signal][2]
              IN  /\ Len(stride) = 200
                  /\ {stride[1], stride[200]} \cap {ArrayMin(stride), ArrayMax(stride)} = {}

(***************************************************************************)
(* The stride slicer on its own: trial_strides applied to every phase      *)
(* trace and to trials whose channels are shorter than, as long as or      *)
(* longer than the phase trace, or lack a channel; the strides it returns  *)
(* go to normalize_trial_strides                                           *)
(***************************************************************************)
\* len(signal) - len(phase) of the force channel
LengthOffsets == {-2, -1, 0, 1}

\* a trial frame with the channels `present`, the force channel `offset`
\* samples longer than the phase trace
SliceTrial(present, offset) ==
    [name \in present |->
        IF name = "GRFz (N)" THEN ForceColumn(1, NumDatapoints + offset)
        ELSE TorqueColumn(1, NumDatapoints)]

SliceInit ==
    /\ \E phase \in [1..NumDatapoints -> PhaseValues],
          present \in {FilteredNames, {"GRFz (N)"}},
          offset \in LengthOffsets :
           locals = [x \in {"phase", "trial"} |->
                        IF x = "phase" THEN [k \in 1..NumDatapoints |-> RInt(phase[k])]
                        ELSE SliceTrial(present, offset)]
    /\ pc = "trial"
    /\ at = "-"
    /\ exc = "none"
    /\ part_i = 0
    /\ file_i = 0
    /\ data = EmptyDict
    /\ participant_strides = EmptyDict
    /\ calls = EmptyDict

\* strides = trial_strides(phase, trial)
SliceCall ==
    /\ pc = "trial"
    /\ LET r == trial_strides(locals["phase"], locals["trial"])
       IN  /\ exc' = r.exc
           /\ pc' = IF r.exc = "none" THEN "strides" ELSE "error"
           /\ locals' = IF r.exc = "none" THEN Put(locals, "strides", r.val) ELSE locals
           /\ calls' = [x \in {"trial"} |-> r.frame]
    /\ UNCHANGED <<data, at, part_i, file_i, participant_strides>>

NextSlice ==
    \/ SliceCall
    \/ NormalizeCall

SpecSlice == SliceInit /\ [][NextSlice]_vars

\* the channels a trial of the study is filtered to; a trial is malformed
\* when one is missing or is not as long as the phase trace
MissingChannel == \E name \in FilteredNames : name \notin DOMAIN locals["trial"]
LengthMismatch ==
    \E name \in DOMAIN locals["trial"] : Len(locals["trial"][name]) # Len(locals["phase"])
Truncated ==
    \E name \in DOMAIN locals["trial"] : Len(locals["trial"][name]) < Len(locals["phase"])

(***************************************************************************)
(* C21: a trial with a missing channel or with a channel whose length      *)
(* differs from the phase signal makes the stride pipeline raise at once:  *)
(* trial_strides returns no strides and nothing is normalized from them.   *)
(***************************************************************************)
C21_MalformedRaises ==
    (pc # "trial" /\ (MissingChannel \/ LengthMismatch)) =>
        /\ pc = "error"
        /\ "strides" \notin DOMAIN locals
        /\ "normalized_strides" \notin DOMAIN locals

(***************************************************************************)
(* C27: every stride that get_stride_list returns and that                 *)
(* normalize_trial_strides receives holds at least one sample, for every   *)
(* phase signal and every signal at least as long as the phase signal,     *)
(* also when the phase is zero at index 0 or at consecutive samples; so    *)
(* np.interp is never called on an empty stride.                           *)
(***************************************************************************)
C27_NoEmptyStride ==
    ~Truncated =>
        /\ "strides" \in DOMAIN locals =>
               \A signal \in DOMAIN locals["strides"] :
                   \A k \in 1..Len(locals["strides"][signal]) :
                       Len(locals["strides"][signal][k]) >= 1
        /\ pc = "error" => "strides" \notin DOMAIN locals

\* a phase trace that is zero at index 0 and at the next two samples, cut
\* into two strides of a channel longer than the phase, which were normalized
C27_Witness ==
    /\ pc = "normalized"
    /\ \A k \in 1..3 : locals["phase"][k].n = 0
    /\ Len(locals["trial"]["GRFz (N)"]) > Len(locals["phase"])
    /\ calls["trial"]["heel_strike_indices"][1] = 0
    /\ Len(locals["strides"]["GRFz (N)"]) >= 2

(***************************************************************************)
(* segment_strides over a batch: two participants with two trials each,    *)
(* every trial with a phase trace that gives one stride, no stride or no   *)
(* heel strike                                                             *)
(***************************************************************************)
\* the samples (1-based) at which a trial's phase trace is zero: two heel
\* strikes (at index 0 or not), one heel strike, none
BatchZeroSets == {{1, 3}, {2, 3}, {2}, {}}

BatchTrace(zeros) == [k \in 1..NumDatapoints |-> IF k \in zeros THEN 0 ELSE 50]

AllParticipantSet == {AllParticipants[i] : i \in 1..Len(AllParticipants)}
ParticipantIndex(p) == CHOOSE i \in 1..Len(AllParticipants) : AllParticipants[i] = p

\* import_multiple_participant_data(participants) for both participants
BatchData(zeros) ==
    [p \in AllParticipantSet |->
        [key \in {"raw signals", "metadata", "file names"} |->
            CASE key = "raw signals" ->
                     [file \in FileSet |->
                         RawTrial(FileIndex(file) + Len(FileNames) * (ParticipantIndex(p) - 1),
                                  BatchTrace(zeros[ParticipantIndex(p)][FileIndex(file)]))]
              [] key = "metadata" -> [file \in FileSet |-> << >>]
              [] key = "file names" -> FileNames]]

BatchInit ==
    /\ \E zeros \in [1..Len(AllParticipants) -> [1..Len(FileNames) -> BatchZeroSets]] :
           data = BatchData(zeros)
    /\ pc = "imported"
    /\ at = "-"
    /\ exc = "none"
    /\ part_i = 0
    /\ file_i = 0
    /\ participant_strides = EmptyDict
    /\ locals = EmptyDict
    /\ calls = EmptyDict

SpecBatch == BatchInit /\ [][Next]_vars

\* the phase trace of a trial, and the trials of the batch in loop order
PhaseOf(p, file) == data[p]["raw signals"][file]["Gait Phase (%)"]
NoHeelStrike(p, file) == \A k \in 1..Len(PhaseOf(p, file)) : PhaseOf(p, file)[k].n # 0
HasStride(p, file) ==
    Cardinality({k \in 1..(Len(PhaseOf(p, file)) - 1) : PhaseOf(p, file)[k].n = 0}) >= 2
FilesOf(p) == Elems(data[p]["file names"])
StridesStored(p, file) ==
    /\ "strides" \in DOMAIN data[p]
    /\ file \in DOMAIN data[p]["strides"]

(***************************************************************************)
(* C22: in a batch run of segment_strides a trial with zero heel strikes   *)
(* or zero strides does not abort the run: when the run has ended, every   *)
(* other trial of the batch, before or after the bad one, has its strides  *)
(* stored, and the bad trial has an entry too (its explicit empty result). *)
(***************************************************************************)
C22_BadTrialDoesNotAbort ==
    (pc \in {"segmented", "error"} /\ part_i > 0) =>
        /\ pc = "segmented"
        /\ \A p \in DOMAIN data : \A file \in FilesOf(p) : StridesStored(p, file)

(***************************************************************************)
(* C30: at every point of a segment_strides run, also after it aborted,    *)
(* a participant's 'strides' entry is absent or has an entry for every one *)
(* of the participant's file names; the participants the loop has finished *)
(* hold their complete entry, the others hold none.                        *)
(***************************************************************************)
C30_StridesAllOrNothing ==
    \A i \in 1..Len(Keys(data)) :
        LET p == Keys(data)[i]
        IN  IF i < part_i
            THEN /\ "strides" \in DOMAIN data[p]
                 /\ DOMAIN data[p]["strides"] = FilesOf(p)
            ELSE "strides" \notin DOMAIN data[p]

\* the run aborted on the second trial of the second participant: the first
\* participant's entry is stored, the second participant's first trial is
\* in the local container only
C30_Witness ==
    /\ pc = "error"
    /\ part_i = 2
    /\ file_i = 2
    /\ DOMAIN participant_strides = {FileNames[1]}
    /\ "strides" \in DOMAIN data[Keys(data)[1]]
    /\ DOMAIN data[Keys(data)[1]]["strides"] = FileSet

(***************************************************************************)
(* The stages of main_gait_pipeline.py as whole calls on the data of the   *)
(* study. The script is a sequence of cells; a session may run them in any *)
(* order, each at most once, and an exception ends the cell, not the       *)
(* session.                                                                *)
(***************************************************************************)
\* filters.filter_signals(data, filter_frequencies), lines 141-152
RECURSIVE filter_signals_from(_, _, _)
filter_signals_from(d, filter_frequencies, i) ==
    IF i > Len(Keys(d)) THEN [exc |-> "none", data |-> d]
    ELSE LET participant == Keys(d)[i]
             r == filter_participant_trials(d[participant]["raw signals"], filter_frequencies)
         IN  IF r.exc # "none" THEN [exc |-> r.exc, data |-> d]
             ELSE filter_signals_from([d EXCEPT ![participant] =
                                          Put(d[participant], "filtered signals", r.val)],
                                      filter_frequencies, i + 1)

filter_signals(d, filter_frequencies) == filter_signals_from(d, filter_frequencies, 1)

\* lines 304-325 of segment_strides: the file loop from file number i on
RECURSIVE segment_files(_, _, _, _)
segment_files(participant_data, file_names, i, strides) ==
    IF i > Len(file_names) THEN [exc |-> "none", val |-> strides]
    ELSE LET file == file_names[i]
             sliced == segment_slice(participant_data, file)
             normalized == segment_normalize(sliced.frame)
             packaged == segment_package(normalized.frame)
         IN  IF sliced.exc # "none" THEN [exc |-> sliced.exc, val |-> strides]
             ELSE IF normalized.exc # "none" THEN [exc |-> normalized.exc, val |-> strides]
             ELSE IF packaged.exc # "none" THEN [exc |-> packaged.exc, val |-> strides]
             ELSE segment_files(participant_data, file_names, i + 1,
                                Put(strides, file, packaged.frame["signals_dict"]))

\* segment_strides that stores the strides under 'filtered signals'
RECURSIVE segment_participants_wrong_key(_, _)
segment_participants_wrong_key(d, i) ==
    IF i > Len(Keys(d)) THEN [exc |-> "none", data |-> d]
    ELSE LET participant == Keys(d)[i]
             participant_data == d[participant]
             r == segment_files(participant_data, participant_data["file names"], 1, EmptyDict)
         IN  IF r.exc # "none" THEN [exc |-> r.exc, data |-> d]
             ELSE segment_participants_wrong_key(
                      [d EXCEPT ![participant] =
                          Put(Put(participant_data, "strides", r.val),
                              "filtered signals", r.val)], i + 1)

\* lines 296-327 of segment_strides: the participant loop from number i on
RECURSIVE segment_participants(_, _)
segment_participants(d, i) ==
    IF i > Len(Keys(d)) THEN [exc |-> "none", data |-> d]
    ELSE LET participant == Keys(d)[i]
             participant_data == d[participant]
             r == segment_files(participant_data, participant_data["file names"], 1, EmptyDict)
         IN  IF r.exc # "none" THEN [exc |-> r.exc, data |-> d]
             ELSE segment_participants([d EXCEPT ![participant] =
                                           Put(participant_data, "strides", r.val)], i + 1)

\* gait_cycles.segment_strides(data)
segment_strides(d) == segment_participants(d, 1)

\* results.compute_outcomes from line 394 on: the outcomes dictionary and its
\* store; an exception of one of the calls above leaves the function at the
\* call, in the order of the calls
outcomes_dict(d, peak_torques, max_torque, rom_outcomes, tracking_errors) ==
    LET max_force == RDiv(max_torque, Rat(55, 1000))
        outcomes ==
            [key \in {"peak torques", "max torque", "max force",
                      "rom across conditions", "tracking errors"} |->
                CASE key = "peak torques" -> peak_torques.val
                  [] key = "max torque" -> max_torque
                  [] key = "max force" -> max_force
                  [] key = "rom across conditions" -> rom_outcomes.val
                  [] key = "tracking errors" -> tracking_errors.val]
    IN  IF peak_torques.exc # "none" THEN [exc |-> peak_torques.exc, data |-> d]
        ELSE IF rom_outcomes.exc # "none" THEN [exc |-> rom_outcomes.exc, data |-> d]
        ELSE IF tracking_errors.exc # "none" THEN [exc |-> tracking_errors.exc, data |-> d]
        ELSE [exc |-> "none",
              data |-> [d EXCEPT !["BP A 010"] = Put(d["BP A 010"], "outcomes", outcomes)]]

\* results.compute_outcomes(data)
compute_outcomes(d) ==
    outcomes_dict(d, compute_peak_torque_across_conditions(d),
                  compute_maximum_torque_all_trials(d),
                  compute_RoM_across_conditions(d),
                  compute_tracking_error_across_conditions(d))

\* the samples (1-based) at which the phase trace of file number f is zero:
\* one stride of one sample, from index 0 or from index 1; the trial `bad`
\* has no heel strike
OrderZeros(f, bad) == IF f = bad THEN {} ELSE IF f % 2 = 0 THEN {1, 2} ELSE {2, 3}

\* the frame tdms_to_dataframe returns for file number f of the study
StudyRawTrial(f, seed, phase) ==
    LET n == Len(phase)
    IN  [name \in StudyFilteredNames \cup {"Time", "Gait Phase (%)"} |->
            CASE name = "Time" -> TimeColumn(n)
              [] name = "GRFz (N)" -> ForceColumn(f, n)
              [] name = "Exoskeleton Angle (deg)" ->
                     [k \in 1..n |-> RInt(((k * f + seed) % 13) * 5)]
              [] name = "Joint Torque (Nm)" -> TorqueColumn(f + seed, n)
              [] name = "Joint Torque Setpoint (Nm)" ->
                     [k \in 1..n |-> RInt(TorqueColumn(f + seed, n)[k].n + ((k + f + seed) % 3) - 1)]
              [] name = "Gait Phase (%)" -> [k \in 1..n |-> RInt(phase[k])]]

\* what is wrong with the bad trial of a data set
BadKinds == {"no heel strike", "no channel"}

\* the frame of trial number f: the bad trial has no heel strike, or lacks
\* the force channel
StudyImport(f, seed, bad, kind) ==
    LET zeros == OrderZeros(f, IF kind = "no heel strike" THEN bad ELSE 0)
        trial == StudyRawTrial(f, seed, BatchTrace(zeros))
    IN  IF f = bad /\ kind = "no channel"
        THEN [name \in DOMAIN trial \ {"GRFz (N)"} |-> trial[name]]
        ELSE trial

\* the trial files of a participant: the eight of the study for the first,
\* two for any other
FilesOfParticipant(p) == IF ParticipantIndex(p) = 1 THEN StudyFileNames ELSE FileNames

\* the number of the trial `file` of participant p, counted through the
\* participants
TrialNumber(p, file) ==
    IF ParticipantIndex(p) = 1 THEN StudyFileIndex(file)
    ELSE Len(StudyFileNames) + Len(FileNames) * (ParticipantIndex(p) - 2) + FileIndex(file)

\* import_multiple_participant_data(participants) for the first n
\* participants
StudyData(n, seed, bad, kind) ==
    [p \in {AllParticipants[i] : i \in 1..n} |->
        [key \in {"raw signals", "metadata", "file names"} |->
            CASE key = "raw signals" ->
                     [file \in Elems(FilesOfParticipant(p)) |->
                         StudyImport(TrialNumber(p, file), seed, bad, kind)]
              [] key = "metadata" -> [file \in Elems(FilesOfParticipant(p)) |-> << >>]
              [] key = "file names" -> FilesOfParticipant(p)]]

\* the first trial of the first participant or the last trial of the last
BadTrials(n) == {1, Len(StudyFileNames) + Len(FileNames) * (n - 1)}

\* the sensor samples of the session
StudySeed == 1

OrderInit ==
    /\ \E n \in 1..Len(AllParticipants) :
           \/ data = StudyData(n, StudySeed, 0, "no heel strike")
           \/ \E bad \in BadTrials(n), kind \in BadKinds :
                  data = StudyData(n, StudySeed, bad, kind)
    /\ pc = "session"
    /\ at = "-"
    /\ exc = "none"
    /\ part_i = 0
    /\ file_i = 0
    /\ participant_strides = EmptyDict
    /\ locals = EmptyDict
    /\ calls = EmptyDict

\* a cell runs one stage, which returns r; calls records how each stage that
\* was run ended
Invoke(stage, r) ==
    /\ data' = r.data
    /\ exc' = r.exc
    /\ at' = stage
    /\ calls' = Put(calls, stage, r.exc)
    /\ UNCHANGED <<pc, part_i, file_i, participant_strides, locals>>

\* main_gait_pipeline.py line 62
RunFilterSignals ==
    /\ pc = "session"
    /\ "filter_signals" \notin DOMAIN calls
    /\ Invoke("filter_signals", filter_signals(data, StudyFilteredNames))

\* line 68
RunSegmentStrides ==
    /\ pc = "session"
    /\ "segment_strides" \notin DOMAIN calls
    /\ Invoke("segment_strides", segment_strides(data))

\* line 73
RunAverageStrides ==
    /\ pc = "session"
    /\ "average_strides" \notin DOMAIN calls
    /\ Invoke("average_strides", average_strides(data))

\* line 78
RunConditionAverages ==
    /\ pc = "session"
    /\ "condition_averages" \notin DOMAIN calls
    /\ Invoke("condition_averages", condition_averages(data))

\* line 84
RunComputeOutcomes ==
    /\ pc = "session"
    /\ "compute_outcomes" \notin DOMAIN calls
    /\ Invoke("compute_outcomes", compute_outcomes(data))

NextOrder ==
    \/ RunFilterSignals
    \/ RunSegmentStrides
    \/ RunAverageStrides
    \/ RunConditionAverages
    \/ RunComputeOutcomes

SpecOrder == OrderInit /\ [][NextOrder]_vars

(***************************************************************************)
(* What the claims about the order of the stages read from a state         *)
(***************************************************************************)
StageOrder ==
    <<"filter_signals", "segment_strides", "average_strides",
      "condition_averages", "compute_outcomes">>
Completed(stage) == stage \in DOMAIN calls /\ calls[stage] = "none"
Raised(stage) == stage \in DOMAIN calls /\ calls[stage] # "none"

\* the output key of a stage is in the data
HasOutput(stage) ==
    LET d == data[TheParticipant]
    IN  CASE stage = "filter_signals" -> "filtered signals" \in DOMAIN d
          [] stage = "segment_strides" -> "strides" \in DOMAIN d
          [] stage = "average_strides" -> "averages" \in DOMAIN d
          [] stage = "condition_averages" ->
                 "averages" \in DOMAIN d /\ "conditions" \in DOMAIN d["averages"]
          [] stage = "compute_outcomes" -> "outcomes" \in DOMAIN d

\* the top-level key a stage writes
WrittenKey(stage) ==
    CASE stage = "filter_signals" -> "filtered signals"
      [] stage = "segment_strides" -> "strides"
      [] stage = "average_strides" -> "averages"
      [] stage = "condition_averages" -> "averages"
      [] stage = "compute_outcomes" -> "outcomes"

(***************************************************************************)
(* C23: data flows downstream only: a call of segment_strides,             *)
(* average_strides, condition_averages or compute_outcomes (or             *)
(* filter_signals) adds its own output and nothing else, and leaves every  *)
(* entry written before it (raw signals, metadata, file names, filtered    *)
(* signals, strides, the per-trial Mean/SD trajectories) unchanged.        *)
(***************************************************************************)
C23_KeepsEarlierEntries ==
    \A p \in DOMAIN data :
        /\ p \in DOMAIN data'
        /\ \A key \in DOMAIN data[p] :
               /\ key \in DOMAIN data'[p]
               /\ key # "averages" => data'[p][key] = data[p][key]
               /\ key = "averages" =>
                      \A file \in DOMAIN data[p][key] :
                          /\ file \in DOMAIN data'[p][key]
                          /\ data'[p][key][file] = data[p][key][file]
        /\ DOMAIN data'[p] \ DOMAIN data[p] \subseteq {WrittenKey(at')}
        /\ "averages" \in DOMAIN data[p] =>
               DOMAIN data'[p]["averages"] \ DOMAIN data[p]["averages"] \subseteq {"conditions"}

C23_DownstreamOnly == [][C23_KeepsEarlierEntries]_vars

\* the five stages have completed and the data holds every stage's output
\* beside the imported entries
C23_Witness ==
    /\ pc = "session"
    /\ \A i \in 1..Len(StageOrder) : Completed(StageOrder[i])
    /\ DOMAIN data[TheParticipant] =
           {"raw signals", "metadata", "file names", "filtered signals",
            "strides", "averages", "outcomes"}
    /\ "conditions" \in DOMAIN data[TheParticipant]["averages"]

(***************************************************************************)
(* C29: the stages can complete only in the order filter_signals,          *)
(* segment_strides, average_strides, condition_averages, compute_outcomes: *)
(* a stage completes only when its predecessor has completed, a stage that *)
(* is run before its predecessor has completed raises and writes nothing,  *)
(* and 'outcomes' exist only together with all four condition averages.    *)
(***************************************************************************)
C29_KeysFollowStages ==
    pc = "session" =>
        /\ \A i \in 2..Len(StageOrder) :
               Completed(StageOrder[i]) => Completed(StageOrder[i - 1])
        /\ HasOutput("compute_outcomes") =>
               DOMAIN data[TheParticipant]["averages"]["conditions"] = ConditionLabels

C29_CompletesAfterPredecessor ==
    /\ \A i \in 2..Len(StageOrder) :
           (Completed(StageOrder[i])' /\ ~Completed(StageOrder[i])) =>
               Completed(StageOrder[i - 1])
    /\ \A i \in 2..Len(StageOrder) :
           (at' = StageOrder[i] /\ StageOrder[i] \notin DOMAIN calls
                /\ ~Completed(StageOrder[i - 1])) =>
               (exc' # "none" /\ Raised(StageOrder[i])' /\ data' = data)

C29_StageOrder == [][C29_CompletesAfterPredecessor /\ C29_KeysFollowStages']_vars

\* an output key is in the data exactly when its stage has completed
C29_KeysOnlyOfCompleted ==
    \A i \in 1..Len(StageOrder) : HasOutput(StageOrder[i]) <=> Completed(StageOrder[i])

\* the key a stage reads is in participant p's data
HasInput(p, stage) ==
    CASE stage = "filter_signals" -> "raw signals" \in DOMAIN data[p]
      [] stage = "segment_strides" -> "filtered signals" \in DOMAIN data[p]
      [] stage = "average_strides" -> "strides" \in DOMAIN data[p]
      [] stage = "condition_averages" -> "averages" \in DOMAIN data[p]
      [] stage = "compute_outcomes" ->
             "averages" \in DOMAIN data[p] /\ "conditions" \in DOMAIN data[p]["averages"]

\* for every participant the keys are there in the order of the stages
C29_KeysInOrder ==
    \A p \in DOMAIN data :
        LET d == data[p]
        IN  /\ "strides" \in DOMAIN d => "filtered signals" \in DOMAIN d
            /\ "averages" \in DOMAIN d => "strides" \in DOMAIN d
            /\ "outcomes" \in DOMAIN d =>
                   /\ "averages" \in DOMAIN d
                   /\ "conditions" \in DOMAIN d["averages"]
                   /\ DOMAIN d["averages"]["conditions"] = ConditionLabels

\* a stage run while the first participant lacks the key it reads raises and
\* writes nothing; a participant gets a stage's output only when it holds
\* the key the stage reads
C29_ReadsPredecessorKey ==
    /\ \A i \in 1..Len(StageOrder) :
           (at' = StageOrder[i] /\ StageOrder[i] \notin DOMAIN calls
                /\ ~HasInput(Keys(data)[1], StageOrder[i])) =>
               (exc' # "none" /\ data' = data)
    /\ \A p \in DOMAIN data : data'[p] # data[p] => HasInput(p, at')

(***************************************************************************)
(* C29 (amended): for every participant the output keys appear in the      *)
(* order of the stages, because each stage reads the key its predecessor   *)
(* wrote: a stage gives a participant its output only when the participant *)
(* holds that key, and a stage run while the first participant of the data *)
(* lacks it raises and writes nothing. On data of one participant, as in   *)
(* the main script, the stages can complete only in the order              *)
(* filter_signals, segment_strides, average_strides, condition_averages,   *)
(* compute_outcomes, and a stage that raises writes nothing.               *)
(***************************************************************************)
C29_StageOrderPerParticipant ==
    /\ [](C29_KeysInOrder)
    /\ [][C29_ReadsPredecessorKey]_vars
    /\ [](Len(Keys(data)) = 1 => C29_KeysFollowStages /\ C29_KeysOnlyOfCompleted)
    /\ [][Len(Keys(data)) = 1 =>
              C29_CompletesAfterPredecessor /\ (exc' # "none" => data' = data)]_vars

\* on data of one participant compute_outcomes was run first and raised,
\* average_strides was run before segment_strides and raised, and the stages
\* before them completed
C29_Witness ==
    /\ pc = "session"
    /\ Len(Keys(data)) = 1
    /\ Raised("compute_outcomes")
    /\ Raised("average_strides")
    /\ Completed("filter_signals")
    /\ Completed("segment_strides")
    /\ ~HasOutput("average_strides")
    /\ ~HasOutput("compute_outcomes")

(***************************************************************************)
(* The force-based variant of the event detector (spec.md, 4.1): the       *)
(* force trace is clipped at the saturation ceiling, differentiated,       *)
(* compared with the threshold, and a heel strike is emitted at every      *)
(* rising edge of the flag; an event on the last sample is dropped         *)
(***************************************************************************)
\* the saturation ceiling in N and the derivative threshold in units/s
SaturationCeiling == 25
DerivativeThreshold == 500

\* (a) the signal clipped above the ceiling
clip(signal) ==
    [k \in 1..Len(signal) |->
        IF RLt(RInt(SaturationCeiling), signal[k]) THEN RInt(SaturationCeiling)
        ELSE signal[k]]

\* (b) the finite difference over the sample interval 1/sampFreqHz; the
\* first sample has none before it
derivative(signal) ==
    [k \in 1..Len(signal) |->
        IF k = 1 THEN RInt(0)
        ELSE RMul(RSub(signal[k], signal[k - 1]), RInt(sampFreqHz))]

\* (c) the samples where the derivative exceeds the threshold
above_threshold(signal_derivative) ==
    [k \in 1..Len(signal_derivative) |->
        RLt(RInt(DerivativeThreshold), signal_derivative[k])]

\* a detector that reports every flagged sample
flagged_samples(flag) ==
    SelectSeq([k \in 1..Len(flag) |-> k - 1], LAMBDA i : flag[i + 1])

\* (d) the 0-based indices where the flag turns from false to true
rising_edges(flag) ==
    SelectSeq([k \in 1..Len(flag) |-> k - 1],
              LAMBDA i : flag[i + 1] /\ (i = 0 \/ ~flag[i]))

\* the trailing event on the very last sample is dropped; no event, no drop
drop_trailing_event(events, signal) ==
    IF Len(events) = 0 THEN events ELSE DropFinalEvent(events, signal)

\* force samples in N: at rest, a step of exactly the threshold, loading and
\* a peak above the ceiling
ForceLevels == {RInt(0), Rat(1, 2), RInt(10), RInt(20), RInt(40)}
ForceSamples == NumDatapoints + 1

ForceInit ==
    /\ \E signal \in [1..ForceSamples -> ForceLevels] :
           locals = [x \in {"signal"} |-> signal]
    /\ pc = "signal"
    /\ at = "-"
    /\ exc = "none"
    /\ part_i = 0
    /\ file_i = 0
    /\ data = EmptyDict
    /\ participant_strides = EmptyDict
    /\ calls = EmptyDict

\* a step of the detector: its result is the local `name`
DetectorStep(from, to, name, val) ==
    /\ pc = from
    /\ pc' = to
    /\ locals' = Put(locals, name, val)
    /\ UNCHANGED <<data, at, exc, part_i, file_i, participant_strides, calls>>

ClipSignal == DetectorStep("signal", "clipped", "clipped", clip(locals["signal"]))

Differentiate ==
    DetectorStep("clipped", "differentiated", "derivative", derivative(locals["clipped"]))

FlagSamples ==
    DetectorStep("differentiated", "flagged", "flag", above_threshold(locals["derivative"]))

EmitEvents == DetectorStep("flagged", "emitted", "events", rising_edges(locals["flag"]))

DropTrailingEvent ==
    DetectorStep("emitted", "detected", "heel_strike_indices",
                 drop_trailing_event(locals["events"], locals["signal"]))

NextForce ==
    \/ ClipSignal
    \/ Differentiate
    \/ FlagSamples
    \/ EmitEvents
    \/ DropTrailingEvent

SpecForce == ForceInit /\ [][NextForce]_vars

\* the flag at the 0-based sample i, false before the first sample
FlagAt(i) == i >= 0 /\ i < Len(locals["flag"]) /\ locals["flag"][i + 1]

\* the maximal runs of flagged samples, as pairs of first and last index
FlaggedRuns ==
    {run \in (0..(Len(locals["flag"]) - 1)) \X (0..(Len(locals["flag"]) - 1)) :
        /\ run[1] <= run[2]
        /\ \A i \in run[1]..run[2] : FlagAt(i)
        /\ ~FlagAt(run[1] - 1)
        /\ ~FlagAt(run[2] + 1)}

(***************************************************************************)
(* C24: the force-based detector emits an event at sample i exactly when   *)
(* the derivative-above-threshold flag is true at i and false at i-1: a    *)
(* run of consecutive flagged samples yields exactly one event, at the     *)
(* first sample of the run, and never two events. (The heel strikes the    *)
(* detector returns are these events without one on the last sample.)      *)
(***************************************************************************)
C24_RisingEdgeOnly ==
    pc \in {"emitted", "detected"} =>
        LET events == Elems(locals["events"])
        IN  /\ \A i \in 0..(Len(locals["signal"]) - 1) :
                   i \in events <=> (FlagAt(i) /\ ~FlagAt(i - 1))
            /\ events \subseteq 0..(Len(locals["signal"]) - 1)
            /\ Cardinality(events) = Len(locals["events"])
            /\ \A run \in FlaggedRuns : events \cap (run[1]..run[2]) = {run[1]}
            /\ pc = "detected" =>
                   Elems(locals["heel_strike_indices"]) =
                       events \ {Len(locals["signal"]) - 1}

\* a run of two flagged samples and a later run, on the last sample: two
\* events, of which one heel strike is left
C24_Witness ==
    /\ pc = "detected"
    /\ \E run \in FlaggedRuns : run[2] = run[1] + 1
    /\ Cardinality(FlaggedRuns) = 2
    /\ Len(locals["events"]) = 2
    /\ Len(locals["heel_strike_indices"]) = 1
====
